---- MODULE Spec2Model ----
(***************************************************************************)
(* Oligotools: the project tree (FileReference, Folder, Project) of        *)
(* src/domain/entities.py and the project file persistence of              *)
(* src/data/project_repository.py.                                         *)
(*                                                                         *)
(* Strings are sequences of one-character strings, so that split('/'),     *)
(* strip(), the reserved-character test and Path(name).suffix are computed *)
(* on the characters as the code computes them.  Python objects live in a  *)
(* heap: a Folder or FileReference is an integer identifier, a dict is a   *)
(* function whose DOMAIN is its key set.                                   *)
(***************************************************************************)
EXTENDS Integers, Sequences, FiniteSets, TLC

VARIABLES
    folder,             \* the Folder objects: identifier -> fields
    fileref,            \* the FileReference objects: identifier -> fields
    last_modified,      \* Project.last_modified
    project_file_path,  \* Project.project_file_path
    now,                \* the clock datetime.now() reads
    platform,           \* the operating system the program runs on
    project_file,       \* the file at project_file_path
    temp_file,          \* its sibling with the suffix .tmp
    backup_files,       \* the backup siblings: timestamp in the name -> content
    pc,                 \* where the running save_project call stands
    save,               \* the running save_project call
    outcome,            \* how the last save_project call ended
    disk,               \* the other files and directories: path -> content
    project_root,       \* FileManager.project_root
    current_project_path, \* ProjectRepository._current_project_path
    calls,              \* the calls made to the repository so far
    current_project,    \* ApplicationService.current_project: which Project object
    project_modified    \* ApplicationService.project_modified

treevars == <<folder, fileref, last_modified>>
diskvars == <<project_file, temp_file, backup_files>>
repovars == <<disk, project_root, current_project_path, calls>>
servicevars == <<current_project, project_modified>>
vars == <<folder, fileref, last_modified, project_file_path, now, platform,
          project_file, temp_file, backup_files, pc, save, outcome,
          disk, project_root, current_project_path, calls,
          current_project, project_modified>>

---------------------------------------------------------------------------
(* Bounds of the model.                                                    *)

\* Folder objects besides the root folder.
MaxFolders == 2
\* FileReference objects.
MaxFiles == 2

---------------------------------------------------------------------------
(* Strings.                                                                *)

S_Root == <<"R", "o", "o", "t">>
S_a == <<"a">>
S_bt == <<"b", ".", "t">>
S_q == <<"?">>
S_sp == <<" ">>
S_empty == <<>>
S_src == <<"/", "s">>
S_t == <<"t">>
S_path == <<"/", "p">>
S_rel == <<"r">>

\* Python's None where a string is expected (Optional[str]).
NoneStr == <<"None">>

\* Python's None where an object identifier is expected (Optional[str] ids).
NoId == 0

\* str.strip() removes leading and trailing whitespace.
Whitespace == {" ", "\t", "\n", "\r"}

RECURSIVE lstrip(_, _)
lstrip(s, chars) ==
    IF s # <<>> /\ Head(s) \in chars THEN lstrip(Tail(s), chars) ELSE s

RECURSIVE rstrip(_, _)
rstrip(s, chars) ==
    IF s # <<>> /\ s[Len(s)] \in chars
    THEN rstrip(SubSeq(s, 1, Len(s) - 1), chars)
    ELSE s

strip(s) == rstrip(lstrip(s, Whitespace), Whitespace)

\* str.lower() on the characters of the model's alphabet.
LowerChar(c) ==
    CASE c = "R" -> "r"
      [] c = "T" -> "t"
      [] c = "O" -> "o"
      [] OTHER -> c

lower(s) == [i \in 1..Len(s) |-> LowerChar(s[i])]

\* str.split(sep): the pieces between the separators, empty pieces kept.
RECURSIVE split(_, _)
split(s, sep) ==
    IF \E i \in 1..Len(s) : s[i] = sep
    THEN LET i == CHOOSE k \in 1..Len(s) :
                      s[k] = sep /\ \A j \in 1..(k - 1) : s[j] # sep
         IN <<SubSeq(s, 1, i - 1)>> \o split(SubSeq(s, i + 1, Len(s)), sep)
    ELSE <<s>>

\* str.rfind(c): the last index of c (1-based), 0 if absent.
rfind(s, c) ==
    IF \E i \in 1..Len(s) : s[i] = c
    THEN CHOOSE k \in 1..Len(s) : s[k] = c /\ \A j \in (k + 1)..Len(s) : s[j] # c
    ELSE 0

SelectSeqNonEmpty(parts) == SelectSeq(parts, LAMBDA p : p # <<>>)

\* pathlib: Path(name).suffix, the final component's extension with its dot.
PathSuffix(s) ==
    LET comps == SelectSeqNonEmpty(split(s, "/"))
        nm == IF comps = <<>> THEN <<>> ELSE comps[Len(comps)]
        i == rfind(nm, ".")
    IN IF 1 < i /\ i < Len(nm) THEN SubSeq(nm, i, Len(nm)) ELSE <<>>

\* The reserved characters of Folder.__post_init__.
invalid_chars == {"<", ">", ":", "\"", "/", "\\", "|", "?", "*"}

HasInvalidChar(s) == \E i \in 1..Len(s) : s[i] \in invalid_chars

---------------------------------------------------------------------------
(* Dicts.                                                                  *)

EmptyDict == <<>>

Put(d, k, v) == [x \in (DOMAIN d) \cup {k} |-> IF x = k THEN v ELSE d[x]]

Del(d, k) == [x \in (DOMAIN d) \ {k} |-> d[x]]

---------------------------------------------------------------------------
(* The heap and the results of calls.                                      *)

RootId == 1

\* One identifier more than the live objects: a call may construct an object
\* it then fails to insert.
FolderIds == 1..(MaxFolders + 2)
FileIds == 1..(MaxFiles + 3)

\* assignments counts the assignments to Project.last_modified a call makes.
Heap == [folder |-> folder, fileref |-> fileref, last_modified |-> last_modified, assignments |-> 0]

\* A call's outcome: the heap it leaves, the exception it raised ("none" if
\* it returned) and the identifier of the object it returned (NoId if none).
Ok(h, r) == [h |-> h, exc |-> "none", ret |-> r]
Raise(h, e) == [h |-> h, exc |-> e, ret |-> NoId]

\* uuid4(): an identifier no live object carries.
FreshFolderId(h) == CHOOSE i \in FolderIds \ DOMAIN h.folder :
                        \A j \in FolderIds \ DOMAIN h.folder : i <= j
FreshFileId(h) == CHOOSE i \in FileIds \ DOMAIN h.fileref :
                        \A j \in FileIds \ DOMAIN h.fileref : i <= j

Extend(fn, k, v) == [x \in (DOMAIN fn) \cup {k} |-> IF x = k THEN v ELSE fn[x]]

---------------------------------------------------------------------------
(* FileReference.                                                          *)

\* FileReference.__post_init__: what it raises, and the file_type it leaves.
FileReference_post_init(name, original_path, file_type) ==
    IF strip(name) = <<>>
    THEN [exc |-> "FileReferenceError", file_type |-> file_type]
    ELSE IF original_path = <<>>
    THEN [exc |-> "FileReferenceError", file_type |-> file_type]
    ELSE [exc |-> "none",
          file_type |-> IF file_type = <<>>
                        THEN lstrip(lower(PathSuffix(name)), {"."})
                        ELSE file_type]

\* FileReference(id=..., name=..., ...): the object with the identifier id.
\* metadata_ref is the identity of the dict object the metadata field holds:
\* every caller hands over a dict of its own (a literal, a .copy(), a parsed
\* document), which is named after the reference that receives it.
FileReferenceObject(h, id, name, original_path, relative_path, file_type, size_bytes, imported_date, modified, metadata) ==
    LET v == FileReference_post_init(name, original_path, file_type) IN
    IF v.exc # "none" THEN Raise(h, v.exc)
    ELSE LET obj == [name |-> name, original_path |-> original_path,
                     relative_path |-> relative_path,
                     file_type |-> v.file_type, size_bytes |-> size_bytes,
                     imported_date |-> imported_date,
                     last_modified |-> modified,
                     metadata |-> metadata, metadata_ref |-> id]
         IN Ok([h EXCEPT !.fileref = Extend(@, id, obj)], id)

\* FileReference(name=..., ...): the identifier is the default, a fresh
\* uuid4, and the dates default to datetime.now().
NewFileReference(h, name, original_path, relative_path, file_type, size_bytes, metadata) ==
    FileReferenceObject(h, FreshFileId(h), name, original_path, relative_path,
                        file_type, size_bytes, now, now, metadata)

\* FileReference.update_metadata(key=value) on the reference r: the dict
\* object r holds is updated in place, so every reference holding the same
\* dict object sees the new key; last_modified is set on r alone.
update_metadata(h, r, key, value) ==
    [h EXCEPT !.fileref =
        [x \in DOMAIN h.fileref |->
            LET o == IF h.fileref[x].metadata_ref = h.fileref[r].metadata_ref
                     THEN [h.fileref[x] EXCEPT !.metadata = Put(@, key, value)]
                     ELSE h.fileref[x]
            IN IF x = r THEN [o EXCEPT !.last_modified = now] ELSE o]]

---------------------------------------------------------------------------
(* Folder.                                                                 *)

\* Folder.__post_init__: what it raises.
Folder_post_init(name) ==
    IF strip(name) = <<>> THEN "FolderError"
    ELSE IF HasInvalidChar(name) THEN "FolderError"
    ELSE "none"

\* Folder(id=..., name=..., parent_id=...): the object with the identifier id.
FolderObject(h, id, name, created_date, parent_id) ==
    IF Folder_post_init(name) # "none" THEN Raise(h, Folder_post_init(name))
    ELSE LET obj == [name |-> name, created_date |-> created_date,
                     subfolders |-> EmptyDict, files |-> EmptyDict,
                     parent_id |-> parent_id]
         IN Ok([h EXCEPT !.folder = Extend(@, id, obj)], id)

\* Folder(name=...): the identifier is the default, a fresh uuid4, and the
\* date defaults to datetime.now().
NewFolder(h, name) == FolderObject(h, FreshFolderId(h), name, now, NoId)

\* add_subfolder without the test against the file names.
add_subfolder_no_file_test(h, f, c) ==
    LET nm == h.folder[c].name IN
    IF nm \in DOMAIN h.folder[f].subfolders THEN Raise(h, "DuplicateNameError")
    ELSE LET h1 == [h EXCEPT !.folder[c].parent_id = f]
             h2 == [h1 EXCEPT !.folder[f].subfolders = Put(@, nm, c)]
         IN Ok(h2, NoId)

\* add_subfolder that leaves the folder's parent_id as it finds it.
add_subfolder_keeping_parent_id(h, f, c) ==
    LET nm == h.folder[c].name IN
    IF nm \in DOMAIN h.folder[f].subfolders THEN Raise(h, "DuplicateNameError")
    ELSE IF nm \in DOMAIN h.folder[f].files THEN Raise(h, "DuplicateNameError")
    ELSE Ok([h EXCEPT !.folder[f].subfolders = Put(@, nm, c)], NoId)

add_subfolder(h, f, c) ==
    LET nm == h.folder[c].name IN
    IF nm \in DOMAIN h.folder[f].subfolders THEN Raise(h, "DuplicateNameError")
    ELSE IF nm \in DOMAIN h.folder[f].files THEN Raise(h, "DuplicateNameError")
    ELSE LET h1 == [h EXCEPT !.folder[c].parent_id = f]
             h2 == [h1 EXCEPT !.folder[f].subfolders = Put(@, nm, c)]
         IN Ok(h2, NoId)

\* add_file without the test against the subfolder names.
add_file_no_folder_test(h, f, r) ==
    LET nm == h.fileref[r].name IN
    IF nm \in DOMAIN h.folder[f].files THEN Raise(h, "DuplicateNameError")
    ELSE Ok([h EXCEPT !.folder[f].files = Put(@, nm, r)], NoId)

add_file(h, f, r) ==
    LET nm == h.fileref[r].name IN
    IF nm \in DOMAIN h.folder[f].files THEN Raise(h, "DuplicateNameError")
    ELSE IF nm \in DOMAIN h.folder[f].subfolders THEN Raise(h, "DuplicateNameError")
    ELSE Ok([h EXCEPT !.folder[f].files = Put(@, nm, r)], NoId)

remove_subfolder(h, f, folder_name) ==
    IF folder_name \notin DOMAIN h.folder[f].subfolders
    THEN Raise(h, "ItemNotFoundError")
    ELSE LET c == h.folder[f].subfolders[folder_name]
             h1 == [h EXCEPT !.folder[f].subfolders = Del(@, folder_name)]
             h2 == [h1 EXCEPT !.folder[c].parent_id = NoId]
         IN Ok(h2, c)

\* remove_file that returns the reference and leaves it in the folder.
remove_file_no_del(h, f, file_name) ==
    IF file_name \notin DOMAIN h.folder[f].files
    THEN Raise(h, "ItemNotFoundError")
    ELSE Ok(h, h.folder[f].files[file_name])

remove_file(h, f, file_name) ==
    IF file_name \notin DOMAIN h.folder[f].files
    THEN Raise(h, "ItemNotFoundError")
    ELSE LET r == h.folder[f].files[file_name]
         IN Ok([h EXCEPT !.folder[f].files = Del(@, file_name)], r)

\* rename_subfolder that tests the new name against the subfolders only.
rename_subfolder_no_file_test(h, f, old_name, new_name) ==
    IF old_name \notin DOMAIN h.folder[f].subfolders
    THEN Raise(h, "ItemNotFoundError")
    ELSE IF new_name \in DOMAIN h.folder[f].subfolders
    THEN Raise(h, "DuplicateNameError")
    ELSE LET c == h.folder[f].subfolders[old_name]
             h1 == [h EXCEPT !.folder[c].name = new_name]
             h2 == [h1 EXCEPT !.folder[f].subfolders = Put(@, new_name, c)]
             h3 == [h2 EXCEPT !.folder[f].subfolders = Del(@, old_name)]
         IN Ok(h3, NoId)

rename_subfolder(h, f, old_name, new_name) ==
    IF old_name \notin DOMAIN h.folder[f].subfolders
    THEN Raise(h, "ItemNotFoundError")
    ELSE IF new_name \in DOMAIN h.folder[f].subfolders
            \/ new_name \in DOMAIN h.folder[f].files
    THEN Raise(h, "DuplicateNameError")
    ELSE LET c == h.folder[f].subfolders[old_name]
             h1 == [h EXCEPT !.folder[c].name = new_name]
             h2 == [h1 EXCEPT !.folder[f].subfolders = Put(@, new_name, c)]
             h3 == [h2 EXCEPT !.folder[f].subfolders = Del(@, old_name)]
         IN Ok(h3, NoId)

rename_file(h, f, old_name, new_name) ==
    IF old_name \notin DOMAIN h.folder[f].files
    THEN Raise(h, "ItemNotFoundError")
    ELSE IF new_name \in DOMAIN h.folder[f].files
            \/ new_name \in DOMAIN h.folder[f].subfolders
    THEN Raise(h, "DuplicateNameError")
    ELSE LET r == h.folder[f].files[old_name]
             h1 == [h EXCEPT !.fileref[r].name = new_name]
             h2 == [h1 EXCEPT !.folder[f].files = Put(@, new_name, r)]
             h3 == [h2 EXCEPT !.folder[f].files = Del(@, old_name)]
         IN Ok(h3, NoId)

get_path_items(h, f) ==
    (DOMAIN h.folder[f].subfolders) \cup (DOMAIN h.folder[f].files)

---------------------------------------------------------------------------
(* Project.                                                                *)

\* self.last_modified = datetime.now()
\* The assignment is left out.
Touch_forgotten(h) == h

\* self.last_modified = datetime.now()
Touch(h) == [h EXCEPT !.last_modified = now, !.assignments = @ + 1]

\* Project.get_folder_by_path: ret is the folder found.
RECURSIVE walk(_, _, _)
walk(h, current_folder, path_parts) ==
    IF path_parts = <<>> THEN Ok(h, current_folder)
    ELSE IF Head(path_parts) \notin DOMAIN h.folder[current_folder].subfolders
    THEN Raise(h, "ItemNotFoundError")
    ELSE walk(h, h.folder[current_folder].subfolders[Head(path_parts)],
              Tail(path_parts))

path_parts_of(folder_path) ==
    SelectSeq(split(folder_path, "/"), LAMBDA part : part # <<>> /\ part # S_Root)

get_folder_by_path(h, folder_path) ==
    IF folder_path = <<>> \/ folder_path = <<"/">> \/ folder_path = S_Root
    THEN Ok(h, RootId)
    ELSE walk(h, RootId, path_parts_of(folder_path))

\* create_folder_at_path that sets last_modified before it adds the folder.
create_folder_at_path_touching_first(h, folder_path, folder_name) ==
    LET p == get_folder_by_path(h, folder_path) IN
    IF p.exc # "none" THEN Raise(h, p.exc)
    ELSE LET n == NewFolder(Touch(h), folder_name) IN
         IF n.exc # "none" THEN Raise(n.h, n.exc)
         ELSE LET a == add_subfolder(n.h, p.ret, n.ret) IN
              IF a.exc # "none" THEN Raise(a.h, a.exc)
              ELSE Ok(a.h, n.ret)

create_folder_at_path(h, folder_path, folder_name) ==
    LET p == get_folder_by_path(h, folder_path) IN
    IF p.exc # "none" THEN Raise(h, p.exc)
    ELSE LET n == NewFolder(h, folder_name) IN
         IF n.exc # "none" THEN Raise(h, n.exc)
         ELSE LET a == add_subfolder(n.h, p.ret, n.ret) IN
              IF a.exc # "none" THEN Raise(a.h, a.exc)
              ELSE Ok(Touch(a.h), n.ret)

\* add_file_to_path that puts the reference over a child of the same name.
add_file_to_path_replacing(h, folder_path, file_ref) ==
    LET t == get_folder_by_path(h, folder_path) IN
    IF t.exc # "none" THEN Raise(h, t.exc)
    ELSE Ok(Touch([h EXCEPT !.folder[t.ret].files =
                       Put(@, h.fileref[file_ref].name, file_ref)]), NoId)

add_file_to_path(h, folder_path, file_ref) ==
    LET t == get_folder_by_path(h, folder_path) IN
    IF t.exc # "none" THEN Raise(h, t.exc)
    ELSE LET a == add_file(h, t.ret, file_ref) IN
         IF a.exc # "none" THEN Raise(a.h, a.exc)
         ELSE Ok(Touch(a.h), NoId)

move_item(h, source_path, item_name, dest_path) ==
    LET s == get_folder_by_path(h, source_path) IN
    IF s.exc # "none" THEN Raise(h, s.exc)
    ELSE LET d == get_folder_by_path(h, dest_path) IN
    IF d.exc # "none" THEN Raise(h, d.exc)
    ELSE IF item_name \in DOMAIN h.folder[s.ret].subfolders
    THEN LET rm == remove_subfolder(h, s.ret, item_name)
             ad == add_subfolder(rm.h, d.ret, rm.ret)
         IN IF ad.exc # "none" THEN Raise(ad.h, ad.exc)
            ELSE Ok(Touch(ad.h), NoId)
    ELSE IF item_name \in DOMAIN h.folder[s.ret].files
    THEN LET rm == remove_file(h, s.ret, item_name)
             ad == add_file(rm.h, d.ret, rm.ret)
         IN IF ad.exc # "none" THEN Raise(ad.h, ad.exc)
            ELSE Ok(Touch(ad.h), NoId)
    ELSE Raise(h, "ItemNotFoundError")

\* copy_file with metadata=original_file.metadata, without .copy().
copy_file_shared_metadata(h, source_path, file_name, dest_path, new_name) ==
    LET s == get_folder_by_path(h, source_path) IN
    IF s.exc # "none" THEN Raise(h, s.exc)
    ELSE LET d == get_folder_by_path(h, dest_path) IN
    IF d.exc # "none" THEN Raise(h, d.exc)
    ELSE IF file_name \notin DOMAIN h.folder[s.ret].files
    THEN Raise(h, "ItemNotFoundError")
    ELSE LET original_file == h.fileref[h.folder[s.ret].files[file_name]]
             nm == IF new_name = NoneStr \/ new_name = <<>>
                   THEN file_name ELSE new_name
             c == FileReferenceObject(h, FreshFileId(h), nm,
                                      original_file.original_path,
                                      original_file.relative_path,
                                      original_file.file_type,
                                      original_file.size_bytes,
                                      original_file.imported_date, now,
                                      original_file.metadata)
         IN IF c.exc # "none" THEN Raise(h, c.exc)
            ELSE LET shared == [c.h EXCEPT !.fileref[c.ret].metadata_ref =
                                   original_file.metadata_ref]
                     ad == add_file(shared, d.ret, c.ret) IN
                 IF ad.exc # "none" THEN Raise(ad.h, ad.exc)
                 ELSE Ok(Touch(ad.h), c.ret)

\* Project.copy_file: ret is the copy.
copy_file(h, source_path, file_name, dest_path, new_name) ==
    LET s == get_folder_by_path(h, source_path) IN
    IF s.exc # "none" THEN Raise(h, s.exc)
    ELSE LET d == get_folder_by_path(h, dest_path) IN
    IF d.exc # "none" THEN Raise(h, d.exc)
    ELSE IF file_name \notin DOMAIN h.folder[s.ret].files
    THEN Raise(h, "ItemNotFoundError")
    ELSE LET original_file == h.fileref[h.folder[s.ret].files[file_name]]
             nm == IF new_name = NoneStr \/ new_name = <<>>
                   THEN file_name ELSE new_name
             c == FileReferenceObject(h, FreshFileId(h), nm,
                                      original_file.original_path,
                                      original_file.relative_path,
                                      original_file.file_type,
                                      original_file.size_bytes,
                                      original_file.imported_date, now,
                                      original_file.metadata)
         IN IF c.exc # "none" THEN Raise(h, c.exc)
            ELSE LET ad == add_file(c.h, d.ret, c.ret) IN
                 IF ad.exc # "none" THEN Raise(ad.h, ad.exc)
                 ELSE Ok(Touch(ad.h), c.ret)

---------------------------------------------------------------------------
(* Ownership: the objects of the project are those its root folder owns.   *)

RECURSIVE ReachFolders(_, _)
ReachFolders(h, S) ==
    LET T == S \cup UNION {{h.folder[f].subfolders[n] :
                               n \in DOMAIN h.folder[f].subfolders} : f \in S}
    IN IF T = S THEN S ELSE ReachFolders(h, T)

TreeFolders(h) == ReachFolders(h, {RootId})

TreeFiles(h) ==
    UNION {{h.folder[f].files[n] : n \in DOMAIN h.folder[f].files} :
           f \in TreeFolders(h)}

\* An object no reference leads to is reclaimed.
Collect(h) ==
    [folder |-> [f \in TreeFolders(h) |-> h.folder[f]],
     fileref |-> [r \in TreeFiles(h) |-> h.fileref[r]],
     last_modified |-> h.last_modified, assignments |-> h.assignments]

---------------------------------------------------------------------------
(* Serialization: to_dict, json.dumps, json.load, from_dict.               *)

\* Values a metadata map holds: a bool, a str, or an object json cannot encode.
PyBool(b) == [t |-> "bool", v |-> IF b THEN "True" ELSE "False"]
PyStr(x) == [t |-> "str", v |-> x]
PySet(x) == [t |-> "set", v |-> x]

\* datetime.isoformat() and datetime.fromisoformat().
isoformat(d) == [iso |-> d]
fromisoformat(x) == x.iso

ProjectId == "project-id"
ProjectName == <<"P">>

FileReference_to_dict(h, r) ==
    [id |-> r,
     name |-> h.fileref[r].name,
     original_path |-> h.fileref[r].original_path,
     relative_path |-> h.fileref[r].relative_path,
     file_type |-> h.fileref[r].file_type,
     size_bytes |-> h.fileref[r].size_bytes,
     imported_date |-> isoformat(h.fileref[r].imported_date),
     last_modified |-> isoformat(h.fileref[r].last_modified),
     metadata |-> h.fileref[r].metadata]

RECURSIVE Folder_to_dict(_, _)
Folder_to_dict(h, f) ==
    [id |-> f,
     name |-> h.folder[f].name,
     created_date |-> isoformat(h.folder[f].created_date),
     parent_id |-> h.folder[f].parent_id,
     subfolders |-> [n \in DOMAIN h.folder[f].subfolders |->
                        Folder_to_dict(h, h.folder[f].subfolders[n])],
     files |-> [n \in DOMAIN h.folder[f].files |->
                   FileReference_to_dict(h, h.folder[f].files[n])]]

Project_to_dict(h, path) ==
    [project_info |->
        [id |-> ProjectId, name |-> ProjectName,
         created_date |-> isoformat(0),
         last_modified |-> isoformat(h.last_modified),
         project_file_path |-> path],
     folder_structure |-> Folder_to_dict(h, RootId)]

\* json: a bool becomes true or false, a str a string; a set is refused.
json_encodable(v) == v.t \in {"bool", "str"}

json_encode(v) ==
    IF v.t = "bool"
    THEN [j |-> "literal", v |-> IF v.v = "True" THEN "true" ELSE "false"]
    ELSE [j |-> "string", v |-> v.v]

json_decode(x) ==
    IF x.j = "literal"
    THEN [t |-> "bool", v |-> IF x.v = "true" THEN "True" ELSE "False"]
    ELSE [t |-> "str", v |-> x.v]

RECURSIVE folder_encodable(_)
folder_encodable(d) ==
    /\ \A n \in DOMAIN d.files :
          \A k \in DOMAIN d.files[n].metadata :
              json_encodable(d.files[n].metadata[k])
    /\ \A n \in DOMAIN d.subfolders : folder_encodable(d.subfolders[n])

file_encode(d) ==
    [d EXCEPT !.metadata = [k \in DOMAIN d.metadata |-> json_encode(d.metadata[k])]]

\* A parsed JSON value is an object (a record of its keys) or it carries
\* the Python type it parses to: NoneType, int, list.
IsObject(v) == "py_type" \notin DOMAIN v
PyValue(type) == [py_type |-> type]

file_decode(d) ==
    IF IsObject(d) /\ "metadata" \in DOMAIN d
    THEN [d EXCEPT !.metadata = [k \in DOMAIN d.metadata |-> json_decode(d.metadata[k])]]
    ELSE d

RECURSIVE folder_encode(_)
folder_encode(d) ==
    [d EXCEPT !.subfolders = [n \in DOMAIN d.subfolders |->
                                 folder_encode(d.subfolders[n])],
              !.files = [n \in DOMAIN d.files |->
                            file_encode(d.files[n])]]

RECURSIVE folder_decode(_)
folder_decode(d) ==
    LET d1 == IF "subfolders" \in DOMAIN d
              THEN [d EXCEPT !.subfolders = [n \in DOMAIN d.subfolders |->
                                                folder_decode(d.subfolders[n])]]
              ELSE d
    IN IF "files" \in DOMAIN d1
       THEN [d1 EXCEPT !.files = [n \in DOMAIN d.files |-> file_decode(d.files[n])]]
       ELSE d1

\* json.dumps(data, indent=2, ensure_ascii=False): the text, or TypeError.
json_dumps(data) ==
    IF folder_encodable(data.folder_structure)
    THEN [exc |-> "none",
          text |-> [data EXCEPT !.folder_structure = folder_encode(@)]]
    ELSE [exc |-> "TypeError", text |-> <<>>]

\* A file's content: the first `written` of the Chunks pieces of a text.
Chunks == 2

Content(text, written) == <<[text |-> text, written |-> written]>>
Complete(text) == Content(text, Chunks)
NoFile == <<>>
IsComplete(file) == file # NoFile /\ file[1].written = Chunks

\* json.load(f): the document, or JSONDecodeError for a text cut short.
json_load(file) ==
    IF file[1].written < Chunks \/ "raw" \in DOMAIN file[1].text
    THEN [exc |-> "JSONDecodeError", data |-> <<>>]
    ELSE IF /\ IsObject(file[1].text)
            /\ "folder_structure" \in DOMAIN file[1].text
            /\ IsObject(file[1].text.folder_structure)
    THEN [exc |-> "none",
          data |-> [file[1].text EXCEPT !.folder_structure = folder_decode(@)]]
    ELSE [exc |-> "none", data |-> file[1].text]

\* FileReference.from_dict: the reference added to the heap h.
FileReference_from_dict(h, data) ==
    IF \E key \in {"id", "name", "original_path", "relative_path", "file_type",
                   "size_bytes", "imported_date", "last_modified"} :
           key \notin DOMAIN data
    THEN Raise(h, "KeyError")
    ELSE
    FileReferenceObject(h, data.id, data.name, data.original_path,
                        data.relative_path, data.file_type, data.size_bytes,
                        fromisoformat(data.imported_date),
                        fromisoformat(data.last_modified),
                        IF "metadata" \in DOMAIN data THEN data.metadata
                        ELSE EmptyDict)

\* Folder.from_dict: the folder and all beneath it added to the heap h; ret
\* is the folder.
RECURSIVE Folder_from_dict(_, _)
RECURSIVE load_subfolders(_, _, _, _)
RECURSIVE load_files(_, _, _, _)
RECURSIVE put_subfolder(_, _, _, _, _, _)
RECURSIVE put_file(_, _, _, _, _, _)

\* The loop body of from_dict once the child named name is built: sub is
\* what Folder.from_dict returned or raised for it.
put_subfolder(h, f, data, names, name, sub) ==
    IF sub.exc # "none" THEN Raise(h, sub.exc)
    ELSE load_subfolders(
             [sub.h EXCEPT !.folder[f].subfolders = Put(@, name, sub.ret)],
             f, data, names \ {name})

load_subfolders(h, f, data, names) ==
    IF names = {} THEN Ok(h, f)
    ELSE put_subfolder(h, f, data, names, CHOOSE n \in names : TRUE,
                       Folder_from_dict(h, data[CHOOSE n \in names : TRUE]))

put_file(h, f, data, names, name, ref) ==
    IF ref.exc # "none" THEN Raise(h, ref.exc)
    ELSE load_files(
             [ref.h EXCEPT !.folder[f].files = Put(@, name, ref.ret)],
             f, data, names \ {name})

load_files(h, f, data, names) ==
    IF names = {} THEN Ok(h, f)
    ELSE put_file(h, f, data, names, CHOOSE n \in names : TRUE,
                  FileReference_from_dict(h, data[CHOOSE n \in names : TRUE]))

\* Folder.from_dict after its last loop: s2 is what the loops left.
folder_loaded(h, data, s2) ==
    IF s2.exc # "none" THEN Raise(h, s2.exc) ELSE Ok(s2.h, data.id)

\* Folder.from_dict from its second loop on: s1 is what the first loop left.
folder_files(h, data, s1) ==
    IF s1.exc # "none" THEN Raise(h, s1.exc)
    ELSE folder_loaded(h, data,
                       IF "files" \in DOMAIN data
                       THEN load_files(s1.h, data.id, data.files, DOMAIN data.files)
                       ELSE s1)

\* Folder.from_dict from its first loop on: c is the folder cls(...) built.
folder_subfolders(h, data, c) ==
    IF c.exc # "none" THEN Raise(h, c.exc)
    ELSE folder_files(h, data,
                      IF "subfolders" \in DOMAIN data
                      THEN load_subfolders(c.h, data.id, data.subfolders,
                                           DOMAIN data.subfolders)
                      ELSE Ok(c.h, data.id))

Folder_from_dict(h, data) ==
    IF \E key \in {"id", "name", "created_date"} : key \notin DOMAIN data
    THEN Raise(h, "KeyError")
    ELSE folder_subfolders(h, data,
                           FolderObject(h, data.id, data.name,
                                        fromisoformat(data.created_date),
                                        IF "parent_id" \in DOMAIN data
                                        THEN data.parent_id ELSE NoId))

EmptyHeap == [folder |-> <<>>, fileref |-> <<>>, last_modified |-> 0, assignments |-> 0]

\* Project.from_dict once the root folder is built: r is what
\* Folder.from_dict returned or raised.
project_loaded(data, r) ==
    IF r.exc # "none" THEN Raise(EmptyHeap, r.exc)
    ELSE Ok([r.h EXCEPT !.last_modified =
                 fromisoformat(data.project_info.last_modified)], r.ret)

\* Project.from_dict: the heap of the loaded project.
Project_from_dict(data) ==
    IF strip(data.project_info.name) = <<>> THEN Raise(EmptyHeap, "ProjectError")
    ELSE project_loaded(data, Folder_from_dict(EmptyHeap, data.folder_structure))

\* ProjectRepository._validate_project_data: the required keys.
\* `key not in v` for the keys of required: TypeError if v is neither a
\* container nor a string, otherwise CorruptedProjectError if a key is absent.
missing_key(required, v) ==
    IF IsObject(v)
    THEN IF \E key \in required : key \notin DOMAIN v
         THEN "CorruptedProjectError" ELSE "none"
    ELSE IF v.py_type \in {"list", "str"} THEN "CorruptedProjectError"
    ELSE "TypeError"

validate_project_data(data) ==
    IF missing_key({"project_info", "folder_structure"}, data) # "none"
    THEN missing_key({"project_info", "folder_structure"}, data)
    ELSE IF missing_key({"id", "name", "created_date", "last_modified"},
                        data.project_info) # "none"
    THEN missing_key({"id", "name", "created_date", "last_modified"},
                     data.project_info)
    ELSE missing_key({"id", "name"}, data.folder_structure)

\* ProjectRepository.load_project on the file `file`: the heap of the project
\* it returns, or what it raises.
load_project(file) ==
    IF file = NoFile THEN Raise(EmptyHeap, "ProjectFileError")
    ELSE IF "dir" \in DOMAIN file[1] THEN Raise(EmptyHeap, "ProjectFileError")
    ELSE LET j == json_load(file) IN
         IF j.exc # "none" THEN Raise(EmptyHeap, "JsonSerializationError")
         ELSE IF validate_project_data(j.data) # "none"
         THEN Raise(EmptyHeap, validate_project_data(j.data))
         ELSE LET r == Project_from_dict(j.data) IN
              IF r.exc # "none" THEN Raise(EmptyHeap, "CorruptedProjectError")
              ELSE r

---------------------------------------------------------------------------
(* The inputs of the calls.                                                *)

\* "Root/a/b.t" from <<"Root", "a", "b.t">>.
RECURSIVE JoinPath(_)
JoinPath(segs) ==
    IF segs = <<>> THEN <<>>
    ELSE IF Len(segs) = 1 THEN segs[1]
    ELSE segs[1] \o <<"/">> \o JoinPath(Tail(segs))

\* Names handed to Folder(name=...), to FileReference(name=...), as the new
\* name of a rename, and as the name of the child a call looks up.
FolderNameInputs == {S_a, S_Root, S_q, S_sp}
FileNameInputs == {S_a, S_bt, S_q, S_sp}
RenameInputs == {S_a, S_bt, S_q}
NewNameInputs == {NoneStr, S_empty, S_bt, S_sp}
FileLookupInputs == {S_a, S_bt, S_q}
Names == {S_a, S_bt, S_Root, S_q}

P_Root_a == JoinPath(<<S_Root, S_a>>)
P_Root_a_a == JoinPath(<<S_Root, S_a, S_a>>)
P_Root_Root == JoinPath(<<S_Root, S_Root>>)

PathInputs == {S_Root, P_Root_a, P_Root_a_a}

OriginalPathInputs == {S_empty, S_src}
FileTypeInputs == {S_empty}
SizeInputs == {5}
MetadataInputs == {[imported_copy |-> PyBool(TRUE), import_date |-> PyStr(S_t)]}

---------------------------------------------------------------------------
(* The state machine: a project whose tree is mutated through Project and  *)
(* through the Folder objects it hands out.                                *)

\* No save_project call is running.
NoCall == [backup |-> FALSE, before |-> <<>>, backups |-> {}, json_data |-> <<>>]

\* No ApplicationService holds the project: the fields as __init__ sets them.
Unserved ==
    /\ current_project = NoId
    /\ project_modified = FALSE

\* ProjectRepository(): no project root, no current project path, and no
\* file on disk besides the project file and its siblings.
Unopened ==
    /\ disk = <<>>
    /\ project_root = NoneStr
    /\ current_project_path = NoneStr
    /\ calls = 0
    /\ Unserved

\* Project(name=..., project_file_path=...): an empty root folder.
NewProject ==
    /\ folder = [f \in {RootId} |->
                    [name |-> S_Root, created_date |-> 0,
                     subfolders |-> EmptyDict, files |-> EmptyDict,
                     parent_id |-> NoId]]
    /\ fileref = <<>>
    /\ last_modified = 0

Init ==
    /\ NewProject
    /\ project_file_path = S_path
    /\ now = 0
    /\ platform = "posix"
    /\ project_file = <<>>
    /\ temp_file = <<>>
    /\ backup_files = <<>>
    /\ pc = "idle"
    /\ save = NoCall
    /\ outcome = "none"
    /\ Unopened

\* The model holds at most MaxFolders folders besides the root and MaxFiles
\* file references.
WithinBounds(h) ==
    /\ Cardinality(DOMAIN h.folder) <= MaxFolders + 1
    /\ Cardinality(DOMAIN h.fileref) <= MaxFiles

\* The call has run and left the heap r.h; what it raised or returned went to
\* the caller.
Done(r) ==
    \E h \in {Collect(r.h)} :
        /\ WithinBounds(h)
        /\ folder' = h.folder
        /\ fileref' = h.fileref
        /\ last_modified' = h.last_modified
        /\ UNCHANGED <<repovars, servicevars>>
        /\ UNCHANGED <<project_file_path, now, platform, project_file,
                       temp_file, backup_files, pc, save, outcome>>

CreateFolderAtPath ==
    \E p \in PathInputs, n \in FolderNameInputs :
        Done(create_folder_at_path(Heap, p, n))

AddFileToPath ==
    \E p \in PathInputs, n \in FileNameInputs, o \in OriginalPathInputs,
       t \in FileTypeInputs, z \in SizeInputs, m \in MetadataInputs :
        LET c == NewFileReference(Heap, n, o, S_rel, t, z, m) IN
        IF c.exc # "none" THEN Done(c)
        ELSE Done(add_file_to_path(c.h, p, c.ret))

MoveItem ==
    \E sp \in PathInputs, n \in Names, dp \in PathInputs :
        Done(move_item(Heap, sp, n, dp))

CopyFile ==
    \E sp \in PathInputs, n \in FileLookupInputs, dp \in PathInputs,
       nn \in NewNameInputs :
        Done(copy_file(Heap, sp, n, dp, nn))

AddSubfolder ==
    \E f \in DOMAIN folder, n \in FolderNameInputs :
        LET c == NewFolder(Heap, n) IN
        IF c.exc # "none" THEN Done(c)
        ELSE Done(add_subfolder(c.h, f, c.ret))

AddFile ==
    \E f \in DOMAIN folder, n \in FileNameInputs, o \in OriginalPathInputs,
       t \in FileTypeInputs, z \in SizeInputs, m \in MetadataInputs :
        LET c == NewFileReference(Heap, n, o, S_rel, t, z, m) IN
        IF c.exc # "none" THEN Done(c)
        ELSE Done(add_file(c.h, f, c.ret))

RemoveSubfolder ==
    \E f \in DOMAIN folder, n \in Names :
        Done(remove_subfolder(Heap, f, n))

RemoveFile ==
    \E f \in DOMAIN folder, n \in Names :
        Done(remove_file(Heap, f, n))

RenameSubfolder ==
    \E f \in DOMAIN folder, o \in Names, n \in RenameInputs :
        Done(rename_subfolder(Heap, f, o, n))

RenameFile ==
    \E f \in DOMAIN folder, o \in Names, n \in RenameInputs :
        Done(rename_file(Heap, f, o, n))

Next ==
    \/ CreateFolderAtPath
    \/ AddFileToPath
    \/ MoveItem
    \/ CopyFile
    \/ AddSubfolder
    \/ AddFile
    \/ RemoveSubfolder
    \/ RemoveFile
    \/ RenameSubfolder
    \/ RenameFile

Spec == Init /\ [][Next]_vars

---------------------------------------------------------------------------
(* The state machine of ProjectRepository.save_project: a project with one *)
(* file reference is saved again and again; every step that touches the    *)
(* disk is one action, any of them may fail with OSError, and the process  *)
(* may stop between any two of them.                                       *)

MaxClock == 1

OneFileProject ==
    LET c == NewFileReference([folder |-> [f \in {RootId} |->
                                   [name |-> S_Root, created_date |-> 0,
                                    subfolders |-> EmptyDict, files |-> EmptyDict,
                                    parent_id |-> NoId]],
                               fileref |-> <<>>, last_modified |-> 0,
                               assignments |-> 0],
                              S_bt, S_src, S_rel, S_empty, 5, EmptyDict)
    IN add_file_to_path(c.h, S_Root, c.ret).h

SaveInit ==
    /\ now = 0
    /\ folder = OneFileProject.folder
    /\ fileref = OneFileProject.fileref
    /\ last_modified = OneFileProject.last_modified
    /\ project_file_path \in {NoneStr, S_path}
    /\ platform \in {"posix", "windows"}
    /\ project_file = NoFile
    /\ temp_file = NoFile
    /\ backup_files = <<>>
    /\ pc = "idle"
    /\ save = NoCall
    /\ outcome = "none"
    /\ Unopened

\* Time passes between two calls.
Tick ==
    /\ pc = "idle"
    /\ now < MaxClock
    /\ now' = now + 1
    /\ UNCHANGED <<repovars, servicevars>>
    /\ UNCHANGED <<folder, fileref, last_modified, project_file_path, platform,
                   project_file, temp_file, backup_files, pc, save, outcome>>

\* FileReference.update_metadata(note=value).
UpdateMetadata ==
    /\ pc = "idle"
    /\ \E r \in DOMAIN fileref, value \in {PyStr(S_t), PySet(S_t)} :
          fileref' = update_metadata(Heap, r, "note", value).fileref
    /\ UNCHANGED <<repovars, servicevars>>
    /\ UNCHANGED <<folder, last_modified, project_file_path, now, platform,
                   project_file, temp_file, backup_files, pc, save, outcome>>

\* save_project(project, backup) up to the decision to make a backup.
SaveProject ==
    /\ pc = "idle"
    /\ \E backup \in BOOLEAN :
          IF project_file_path = NoneStr \/ project_file_path = <<>>
          THEN /\ outcome' = "ProjectFileError"
               /\ UNCHANGED <<last_modified, pc, save>>
          ELSE /\ last_modified' = now
               /\ save' = [backup |-> backup, before |-> project_file,
                           backups |-> DOMAIN backup_files,
                           json_data |-> <<>>]
               /\ outcome' = "running"
               /\ pc' = IF backup /\ project_file # NoFile
                        THEN "backup" ELSE "serialize"
    /\ UNCHANGED <<repovars, servicevars>>
    /\ UNCHANGED <<folder, fileref, project_file_path, now, platform,
                   project_file, temp_file, backup_files>>

\* The file name _create_backup gives the backup made at the time t: the
\* name holds the time to the second, the unit of the clock.
backup_name(t) == t

\* _create_backup: shutil.copy2 copies the project file.
CreateBackup ==
    /\ pc = "backup"
    /\ backup_files' = Put(backup_files, backup_name(now), project_file)
    /\ pc' = "serialize"
    /\ UNCHANGED <<repovars, servicevars>>
    /\ UNCHANGED <<folder, fileref, last_modified, project_file_path, now,
                   platform, project_file, temp_file, save, outcome>>

\* _create_backup: shutil.copy2 raises OSError, before or after it has
\* opened the backup file; save_project raises BackupError.
CreateBackupFails ==
    /\ pc = "backup"
    /\ \/ backup_files' = backup_files
       \/ backup_files' = Put(backup_files, backup_name(now),
                              Content(project_file[1].text, 0))
    /\ pc' = "idle"
    /\ outcome' = "BackupError"
    /\ UNCHANGED <<repovars, servicevars>>
    /\ UNCHANGED <<folder, fileref, last_modified, project_file_path, now,
                   platform, project_file, temp_file, save>>

\* project.to_dict() and json.dumps; a failure is JsonSerializationError.
Serialize ==
    /\ pc = "serialize"
    /\ LET j == json_dumps(Project_to_dict(Heap, project_file_path)) IN
       IF j.exc # "none"
       THEN /\ outcome' = "JsonSerializationError"
            /\ pc' = "idle"
            /\ save' = save
       ELSE /\ save' = [save EXCEPT !.json_data = j.text]
            /\ pc' = "temp_open"
            /\ outcome' = outcome
    /\ UNCHANGED <<repovars, servicevars>>
    /\ UNCHANGED <<folder, fileref, last_modified, project_file_path, now,
                   platform, project_file, temp_file, backup_files>>

\* open(temp_path, 'w') creates or truncates the temporary sibling file.
OpenTemp ==
    /\ pc = "temp_open"
    /\ temp_file' = Content(save.json_data, 0)
    /\ pc' = "temp_write"
    /\ UNCHANGED <<repovars, servicevars>>
    /\ UNCHANGED <<folder, fileref, last_modified, project_file_path, now,
                   platform, project_file, backup_files, save, outcome>>

\* f.write(json_data) reaches the disk piece by piece; the file is closed
\* after the last piece.
WriteTemp ==
    /\ pc = "temp_write"
    /\ temp_file' = Content(save.json_data, temp_file[1].written + 1)
    /\ pc' = IF temp_file[1].written + 1 = Chunks THEN "move" ELSE "temp_write"
    /\ UNCHANGED <<repovars, servicevars>>
    /\ UNCHANGED <<folder, fileref, last_modified, project_file_path, now,
                   platform, project_file, backup_files, save, outcome>>

\* The except OSError handler of save_project: the temporary file is
\* unlinked if it exists (a failing unlink is passed over), and
\* ProjectFileError is raised.
HandleOSError ==
    /\ \/ temp_file' = NoFile
       \/ temp_file' = temp_file
    /\ outcome' = "ProjectFileError"
    /\ pc' = "idle"

\* open or write of the temporary file raises OSError.
WriteTempFails ==
    /\ pc \in {"temp_open", "temp_write"}
    /\ HandleOSError
    /\ UNCHANGED <<repovars, servicevars>>
    /\ UNCHANGED <<folder, fileref, last_modified, project_file_path, now,
                   platform, project_file, backup_files, save>>

\* os.rename refuses an existing destination on Windows.
rename_refused == platform = "windows" /\ project_file # NoFile

\* shutil.move: os.rename(temp_path, project_path) succeeds.
MoveRename ==
    /\ pc = "move"
    /\ ~rename_refused
    /\ project_file' = temp_file
    /\ temp_file' = NoFile
    /\ pc' = "idle"
    /\ outcome' = "saved"
    /\ UNCHANGED <<repovars, servicevars>>
    /\ UNCHANGED <<folder, fileref, last_modified, project_file_path, now,
                   platform, backup_files, save>>

\* shutil.move: os.rename raises FileExistsError, an OSError, and shutil.move
\* goes on to copy the temporary file over the destination.
MoveRenameFails ==
    /\ pc = "move"
    /\ rename_refused
    /\ pc' = "copy_open"
    /\ UNCHANGED <<repovars, servicevars>>
    /\ UNCHANGED <<folder, fileref, last_modified, project_file_path, now,
                   platform, project_file, temp_file, backup_files, save,
                   outcome>>

\* shutil.move: copy2 opens the destination for writing, which truncates it.
CopyOpen ==
    /\ pc = "copy_open"
    /\ project_file' = Content(temp_file[1].text, 0)
    /\ pc' = "copy_write"
    /\ UNCHANGED <<repovars, servicevars>>
    /\ UNCHANGED <<folder, fileref, last_modified, project_file_path, now,
                   platform, temp_file, backup_files, save, outcome>>

\* shutil.move: copy2 copies the next piece.
CopyWrite ==
    /\ pc = "copy_write"
    /\ project_file' = Content(temp_file[1].text, project_file[1].written + 1)
    /\ pc' = IF project_file[1].written + 1 = Chunks
             THEN "unlink" ELSE "copy_write"
    /\ UNCHANGED <<repovars, servicevars>>
    /\ UNCHANGED <<folder, fileref, last_modified, project_file_path, now,
                   platform, temp_file, backup_files, save, outcome>>

\* shutil.move: os.unlink(temp_path) ends the move, and save_project returns.
MoveUnlink ==
    /\ pc = "unlink"
    /\ temp_file' = NoFile
    /\ pc' = "idle"
    /\ outcome' = "saved"
    /\ UNCHANGED <<repovars, servicevars>>
    /\ UNCHANGED <<folder, fileref, last_modified, project_file_path, now,
                   platform, project_file, backup_files, save>>

\* shutil.move: the copy or the unlink raises OSError.
MoveCopyFails ==
    /\ pc \in {"copy_open", "copy_write", "unlink"}
    /\ HandleOSError
    /\ UNCHANGED <<repovars, servicevars>>
    /\ UNCHANGED <<folder, fileref, last_modified, project_file_path, now,
                   platform, project_file, backup_files, save>>

\* The process stops between two steps of a save_project call.
Crash ==
    /\ pc \notin {"idle", "crashed"}
    /\ pc' = "crashed"
    /\ UNCHANGED <<repovars, servicevars>>
    /\ UNCHANGED <<folder, fileref, last_modified, project_file_path, now,
                   platform, project_file, temp_file, backup_files, save,
                   outcome>>

SaveNext ==
    \/ Tick
    \/ UpdateMetadata
    \/ SaveProject
    \/ CreateBackup
    \/ CreateBackupFails
    \/ Serialize
    \/ OpenTemp
    \/ WriteTemp
    \/ WriteTempFails
    \/ MoveRename
    \/ MoveRenameFails
    \/ CopyOpen
    \/ CopyWrite
    \/ MoveUnlink
    \/ MoveCopyFails
    \/ Crash

SaveSpec == SaveInit /\ [][SaveNext]_vars

---------------------------------------------------------------------------
(* Paths and the disk.  A path is a string with the separator "/"; the     *)
(* disk maps the path of every file and directory to its content.          *)

S_slash == <<"/">>
S_oligoproj == <<".", "o", "l", "i", "g", "o", "p", "r", "o", "j">>
S_imported_files == <<"i", "m", "p", "o", "r", "t", "e", "d", "_", "f", "i", "l", "e", "s">>
S_backup == <<"_", "b", "a", "c", "k", "u", "p", "_">>

\* pathlib: Path(p).name, the final component.
PathName(p) == SubSeq(p, rfind(p, "/") + 1, Len(p))

\* pathlib: Path(p).parent of an absolute path.
PathParent(p) ==
    IF rfind(p, "/") <= 1 THEN S_slash ELSE SubSeq(p, 1, rfind(p, "/") - 1)

\* pathlib: Path(p).stem, the final component without its suffix.
PathStem(p) == SubSeq(PathName(p), 1, Len(PathName(p)) - Len(PathSuffix(p)))

\* pathlib: Path(p).with_suffix(suffix).
with_suffix(p, suffix) == SubSeq(p, 1, Len(p) - Len(PathSuffix(p))) \o suffix

\* pathlib: a / b; an absolute b stands for itself.
PathJoin(a, b) ==
    IF b # <<>> /\ Head(b) = "/" THEN b
    ELSE IF a = S_slash THEN a \o b
    ELSE a \o S_slash \o b

\* The directories above p, the root directory "/" left out.
RECURSIVE Ancestors(_)
Ancestors(p) ==
    IF PathParent(p) = S_slash THEN {}
    ELSE {PathParent(p)} \cup Ancestors(PathParent(p))

\* The components of an absolute path with every ".." and the component
\* before it taken out, and every "." and empty component dropped.
RECURSIVE collapse(_, _)
collapse(parts, done) ==
    IF parts = <<>> THEN done
    ELSE IF Head(parts) = <<".", ".">>
    THEN collapse(Tail(parts), SubSeq(done, 1, Len(done) - 1))
    ELSE IF Head(parts) = <<>> \/ Head(parts) = <<".">>
    THEN collapse(Tail(parts), done)
    ELSE collapse(Tail(parts), Append(done, Head(parts)))

\* pathlib: Path(p).resolve() of an absolute path on a disk without symbolic
\* links: the canonical path.  Path.absolute(), in contrast, leaves the
\* path as it is.
resolve(p) == S_slash \o JoinPath(collapse(split(p, "/"), <<>>))

\* p is the directory dir or lies beneath it.
IsUnder(p, dir) ==
    \/ p = dir
    \/ /\ Len(p) > Len(dir)
       /\ SubSeq(p, 1, Len(dir)) = dir
       /\ p[Len(dir) + 1] = "/"

\* str.replace(old, new) for one-character strings.
replace(str, old, new) == [i \in 1..Len(str) |-> IF str[i] = old THEN new ELSE str[i]]

\* os.sep; the repository's state machine runs on a POSIX system.
os_sep == "/"

Directory == <<[dir |-> TRUE]>>

exists(d, p) == p = S_slash \/ p \in DOMAIN d
is_file(d, p) == p \in DOMAIN d /\ "dir" \notin DOMAIN d[p][1]
is_dir(d, p) == p = S_slash \/ (p \in DOMAIN d /\ "dir" \in DOMAIN d[p][1])

\* A directory its owner has closed to searches (chmod 000).
Unsearchable == <<[dir |-> TRUE, mode |-> 0]>>

\* os.stat(p) fails with EACCES: a directory above p is closed to searches.
\* Path.exists() and Path.is_file() pass that error on as PermissionError.
stat_denied(d, p) == \E a \in Ancestors(p) : a \in DOMAIN d /\ d[a] = Unsearchable

\* Path.mkdir(parents=True, exist_ok=True).
mkdir_parents(d, p) ==
    [x \in ((DOMAIN d) \cup ({p} \cup Ancestors(p))) \ {S_slash} |->
        IF x \in DOMAIN d THEN d[x] ELSE Directory]

\* A file that is not a project document: its data in Chunks pieces.
RawFile(data) == Complete([raw |-> data])

\* os.stat(p).st_size, in pieces.
st_size(file) == file[1].written

---------------------------------------------------------------------------
(* FileManager.  A world w is the project object the caller holds (w.h,    *)
(* w.path), the disk, and the repository's binding (w.root, w.current).    *)

World == [h |-> Heap, path |-> project_file_path, disk |-> disk, root |-> project_root, current |-> current_project_path]

\* A method returns ret and leaves the world w, or raises exc.
Returns(w, ret) == [w |-> w, exc |-> "none", ret |-> ret]
Raises(w, exc) == [w |-> w, exc |-> exc, ret |-> <<>>]

\* set_project_root without .parent.
set_project_root_no_parent(project_path) == project_path

\* FileManager.set_project_root.
set_project_root(project_path) == PathParent(project_path)

\* FileManager.resolve_relative_path.
resolve_relative_path(root, relative_path) ==
    IF root = NoneStr THEN [exc |-> "PathResolutionError", ret |-> <<>>]
    ELSE IF relative_path = <<>> THEN [exc |-> "PathResolutionError", ret |-> <<>>]
    ELSE [exc |-> "none",
          ret |-> resolve(PathJoin(root, replace(replace(relative_path, "\\", os_sep), "/", os_sep)))]

\* FileManager.make_relative_path: the resolved path relative to the project
\* root as it was bound, or the resolved path itself when relative_to raises
\* ValueError.
make_relative_path(root, absolute_path) ==
    IF root = NoneStr THEN [exc |-> "PathResolutionError", ret |-> <<>>]
    ELSE IF resolve(absolute_path) = root THEN [exc |-> "none", ret |-> <<".">>]
    ELSE IF IsUnder(resolve(absolute_path), root)
    THEN [exc |-> "none",
          ret |-> replace(SubSeq(resolve(absolute_path), Len(root) + 2,
                                 Len(resolve(absolute_path))), os_sep, "/")]
    ELSE [exc |-> "none", ret |-> replace(resolve(absolute_path), os_sep, "/")]

\* FileManager.file_exists lets an exception through: the path resolves and
\* its stat is denied.
file_exists_raises(w, relative_path) ==
    /\ resolve_relative_path(w.root, relative_path).exc = "none"
    /\ stat_denied(w.disk, resolve_relative_path(w.root, relative_path).ret)

\* f"{file_name}: {str(e)}" for the PermissionError of a denied stat.
error_entry(file_name) == file_name \o <<":", " ", "[Errno 13]">>

\* FileManager.file_exists that finds no file anywhere.
file_exists_nowhere(w, relative_path) == FALSE

\* FileManager.file_exists, where it returns: a path that does not resolve is
\* no file.
file_exists(w, relative_path) ==
    LET r == resolve_relative_path(w.root, relative_path) IN
    IF r.exc # "none" THEN FALSE
    ELSE exists(w.disk, r.ret) /\ is_file(w.disk, r.ret)

\* FileManager.copy_file_to_project; copy_ok tells whether shutil.copy2
\* succeeds, and a failing copy leaves the destination opened and empty.
copy_file_to_project(w, source_path, dest_relative_path, copy_ok) ==
    IF ~exists(w.disk, source_path) THEN Raises(w, "FileNotFoundError")
    ELSE LET dest == resolve_relative_path(w.root, dest_relative_path) IN
    IF dest.exc # "none" THEN Raises(w, dest.exc)
    ELSE LET made == mkdir_parents(w.disk, PathParent(dest.ret)) IN
    IF ~copy_ok
    THEN Raises([w EXCEPT !.disk = Put(made, dest.ret, Content(w.disk[source_path][1].text, 0))],
                "PermissionError")
    ELSE Returns([w EXCEPT !.disk = Put(made, dest.ret, w.disk[source_path])],
                 [success |-> TRUE, source_path |-> source_path,
                  dest_path |-> dest.ret,
                  size_bytes |-> st_size(w.disk[source_path]),
                  relative_path |-> dest_relative_path])

\* validate_file_references that finds no file.
validate_file_references_all_missing(w, file_references) ==
    [valid |-> <<>>,
     missing |-> [i \in 1..Len(file_references) |-> file_references[i].name],
     errors |-> <<>>]

\* FileManager.validate_file_references: the names in the three lists.
RECURSIVE validate_file_references(_, _)
validate_file_references(w, file_references) ==
    IF file_references = <<>>
    THEN [valid |-> <<>>, missing |-> <<>>, errors |-> <<>>]
    ELSE LET rest == validate_file_references(w, Tail(file_references))
             file_ref == Head(file_references)
         IN IF file_exists_raises(w, file_ref.relative_path)
            THEN [rest EXCEPT !.errors = <<error_entry(file_ref.name)>> \o @]
            ELSE IF file_exists(w, file_ref.relative_path)
            THEN [rest EXCEPT !.valid = <<file_ref.name>> \o @]
            ELSE [rest EXCEPT !.missing = <<file_ref.name>> \o @]

\* FileManager.create_directory.
create_directory(w, relative_path) ==
    IF resolve_relative_path(w.root, relative_path).exc # "none"
    THEN Raises(w, resolve_relative_path(w.root, relative_path).exc)
    ELSE IF \E a \in {resolve_relative_path(w.root, relative_path).ret}
                       \cup Ancestors(resolve_relative_path(w.root, relative_path).ret) :
               is_file(w.disk, a)
    THEN Raises(w, "PermissionError")
    ELSE Returns([w EXCEPT !.disk = mkdir_parents(@, resolve_relative_path(w.root, relative_path).ret)],
                 resolve_relative_path(w.root, relative_path).ret)

\* any(p.iterdir()): the directory p has an entry.
any_iterdir(d, p) == \E q \in DOMAIN d : PathParent(q) = p

\* Path.rmdir() of an empty directory.
rmdir(d, p) == [x \in DOMAIN d \ {p} |-> d[x]]

\* The loop of cleanup_empty_directories: rmdir raises OSError for the
\* directories in locked and for the root directory of the file system.
RECURSIVE cleanup_loop(_, _, _, _)
cleanup_loop(w, current_path, removed_dirs, locked) ==
    IF ~(current_path # w.root /\ exists(w.disk, current_path))
    THEN Returns(w, removed_dirs)
    ELSE IF ~is_dir(w.disk, current_path) \/ any_iterdir(w.disk, current_path)
    THEN Returns(w, removed_dirs)
    ELSE IF current_path \in locked \/ current_path = S_slash
    THEN Returns(w, removed_dirs)
    ELSE cleanup_loop([w EXCEPT !.disk = rmdir(@, current_path)],
                      PathParent(current_path),
                      Append(removed_dirs, make_relative_path(w.root, current_path).ret),
                      locked)

\* FileManager.cleanup_empty_directories.
cleanup_empty_directories(w, relative_path, locked) ==
    IF resolve_relative_path(w.root, relative_path).exc # "none"
    THEN Raises(w, resolve_relative_path(w.root, relative_path).exc)
    ELSE cleanup_loop(w, resolve_relative_path(w.root, relative_path).ret, <<>>, locked)

---------------------------------------------------------------------------
(* ProjectRepository.  A call takes the world w and returns the world it   *)
(* leaves with what it returned or raised; the argument io names the step  *)
(* of the call at which the operating system refuses, if any.              *)

Digits == <<"0", "1", "2", "3", "4", "5", "6", "7", "8", "9">>

\* datetime.strftime('%Y%m%d_%H%M%S') of the time t, counted in seconds.
strftime(t) == <<Digits[t + 1]>>

\* _create_backup: the path of the backup made at the time t.
backup_path(project_path, t) ==
    PathJoin(PathParent(project_path),
             PathStem(project_path) \o S_backup \o strftime(t) \o PathSuffix(project_path))

\* save_project: the temporary sibling of the project file.
temp_path(project_path) ==
    with_suffix(project_path, PathSuffix(project_path) \o <<".", "t", "m", "p">>)

\* Project(name=..., project_file_path=...): the heap of a new project.
NewProjectHeap ==
    [folder |-> [f \in {RootId} |->
                    [name |-> S_Root, created_date |-> now,
                     subfolders |-> EmptyDict, files |-> EmptyDict,
                     parent_id |-> NoId]],
     fileref |-> <<>>, last_modified |-> now, assignments |-> 0]

\* Project.__post_init__.
Project_post_init(name) == IF strip(name) = <<>> THEN "ProjectError" ELSE "none"

\* ProjectRepository.save_project, run from its first line to its last.
save_project(w, backup, io) ==
    IF w.path = NoneStr \/ w.path = <<>> THEN Raises(w, "ProjectFileError")
    ELSE LET w1 == [w EXCEPT !.h.last_modified = now]
             make_backup == backup /\ exists(w.disk, w.path)
             w2 == IF make_backup
                   THEN [w1 EXCEPT !.disk = Put(@, backup_path(w.path, now), w.disk[w.path])]
                   ELSE w1
             j == json_dumps(Project_to_dict(w1.h, w1.path))
         IN IF make_backup /\ (io = "backup_fails" \/ is_dir(w.disk, w.path))
            THEN Raises(w1, "BackupError")
            ELSE IF j.exc # "none" THEN Raises(w2, "JsonSerializationError")
            ELSE IF io = "write_fails" \/ ~is_dir(w.disk, PathParent(w.path))
            THEN Raises(w2, "ProjectFileError")
            ELSE IF is_dir(w.disk, w.path)
            THEN Returns([w2 EXCEPT !.disk = Put(@, PathJoin(w.path, PathName(temp_path(w.path))), Complete(j.text))], <<>>)
            ELSE Returns([w2 EXCEPT !.disk = Put(@, w.path, Complete(j.text))], <<>>)

\* create_new_project: the path with the extension forced.
forced_path(file_path) ==
    IF lower(PathSuffix(file_path)) # S_oligoproj
    THEN with_suffix(file_path, S_oligoproj)
    ELSE file_path

\* create_new_project without its test for an existing file.
create_new_project_no_exists_test(w, project_name, file_path, io) ==
    LET project_path == forced_path(file_path)
        parent == PathParent(project_path)
        made == [w EXCEPT !.disk = mkdir_parents(@, parent)]
    IN IF \E a \in {parent} \cup Ancestors(parent) : is_file(w.disk, a)
       THEN Raises(w, "FileExistsError")
       ELSE IF Project_post_init(project_name) # "none"
       THEN Raises(made, Project_post_init(project_name))
       ELSE LET bound == [made EXCEPT !.root = set_project_root(project_path),
                                      !.current = project_path]
                s == save_project([bound EXCEPT !.h = NewProjectHeap,
                                                !.path = project_path], TRUE, io)
            IN IF s.exc # "none"
               THEN Raises([s.w EXCEPT !.h = w.h, !.path = w.path], s.exc)
               ELSE Returns(s.w, RootId)

\* ProjectRepository.create_new_project.  A call that raises hands no
\* project to the caller, who keeps the one held before.
create_new_project(w, project_name, file_path, io) ==
    LET project_path == forced_path(file_path)
        parent == PathParent(project_path)
        made == [w EXCEPT !.disk = mkdir_parents(@, parent)]
    IN IF exists(w.disk, project_path) THEN Raises(w, "ProjectFileError")
       ELSE IF \E a \in {parent} \cup Ancestors(parent) : is_file(w.disk, a)
       THEN Raises(w, "FileExistsError")
       ELSE IF Project_post_init(project_name) # "none"
       THEN Raises(made, Project_post_init(project_name))
       ELSE LET bound == [made EXCEPT !.root = set_project_root(project_path),
                                      !.current = project_path]
                s == save_project([bound EXCEPT !.h = NewProjectHeap,
                                                !.path = project_path], TRUE, io)
            IN IF s.exc # "none"
               THEN Raises([s.w EXCEPT !.h = w.h, !.path = w.path], s.exc)
               ELSE Returns(s.w, RootId)

\* load_project, from Project.from_dict on: r is what it returned or raised.
bind_loaded(w, file_path, r) ==
    IF r.exc # "none" THEN Raises(w, r.exc)
    ELSE Returns([w EXCEPT !.h = r.h, !.path = file_path,
                           !.root = set_project_root(file_path),
                           !.current = file_path], r.ret)

\* ProjectRepository.load_project on the path file_path.
load_project_at(w, file_path) ==
    IF ~exists(w.disk, file_path) THEN Raises(w, "ProjectFileError")
    ELSE IF ~is_file(w.disk, file_path) THEN Raises(w, "ProjectFileError")
    ELSE bind_loaded(w, file_path, load_project(w.disk[file_path]))

\* The name of an import whose while loop is never entered.
free_name_no_loop(w, file_name, counter) == file_name

\* import_file_to_project: the name under imported_files/ the while loop
\* settles on, starting from file_name with the counter at counter.
RECURSIVE free_name(_, _, _)
free_name(w, file_name, counter) ==
    IF file_exists(w, S_imported_files \o S_slash \o file_name)
    THEN free_name(w, PathStem(file_name) \o <<"_">> \o <<Digits[counter + 1]>> \o PathSuffix(file_name),
                   counter + 1)
    ELSE file_name

\* import_file_to_project from "Get file information" on: the source is a
\* file; copy_ok tells whether the copy into the project directory succeeds.
import_checked(w, source_file_path, target_folder_path, copy, copy_ok) ==
    LET file_name == IF copy THEN free_name(w, PathName(source_file_path), 1)
                     ELSE PathName(source_file_path)
        file_size == st_size(w.disk[source_file_path])
        stored == IF copy
                  THEN copy_file_to_project(w, source_file_path,
                                            S_imported_files \o S_slash \o file_name, copy_ok)
                  ELSE LET m == make_relative_path(w.root, source_file_path)
                       IN [w |-> w, exc |-> m.exc, ret |-> [relative_path |-> m.ret]]
    IN IF stored.exc # "none" THEN Raises(stored.w, stored.exc)
       ELSE LET c == NewFileReference(stored.w.h, file_name, source_file_path,
                                      stored.ret.relative_path, S_empty, file_size,
                                      [imported_copy |-> PyBool(copy),
                                       import_date |-> PyStr(isoformat(now))])
            IN IF c.exc # "none" THEN Raises(stored.w, c.exc)
               ELSE LET a == add_file_to_path(c.h, target_folder_path, c.ret)
                    IN IF a.exc # "none"
                       THEN Raises([stored.w EXCEPT !.h = a.h], a.exc)
                       ELSE Returns([stored.w EXCEPT !.h = a.h], c.ret)

\* import_file_to_project without its test for a regular file: copying a
\* directory fails.
import_file_to_project_no_is_file_test(w, source_file_path, target_folder_path, copy, copy_ok) ==
    IF ~exists(w.disk, source_file_path) THEN Raises(w, "FileNotFoundError")
    ELSE IF ~is_file(w.disk, source_file_path) THEN Raises(w, "PermissionError")
    ELSE import_checked(w, source_file_path, target_folder_path, copy, copy_ok)

\* ProjectRepository.import_file_to_project.
import_file_to_project(w, source_file_path, target_folder_path, copy, copy_ok) ==
    IF ~exists(w.disk, source_file_path) THEN Raises(w, "FileNotFoundError")
    ELSE IF ~is_file(w.disk, source_file_path) THEN Raises(w, "FileNotFoundError")
    ELSE import_checked(w, source_file_path, target_folder_path, copy, copy_ok)

\* Project.get_all_file_references, as the list of their dicts.
RECURSIVE list_of(_, _)
list_of(h, refs) ==
    IF refs = {} THEN <<>>
    ELSE LET r == CHOOSE x \in refs : \A y \in refs : x <= y
         IN <<FileReference_to_dict(h, r)>> \o list_of(h, refs \ {r})

get_all_file_references(h) == list_of(h, TreeFiles(h))

\* validate_project_references whose all_valid looks at the errors only.
validate_project_references_missing_ignored(w) ==
    LET all_files == get_all_file_references(w.h)
        v == validate_file_references(w, all_files)
    IN [valid |-> v.valid, missing |-> v.missing, errors |-> v.errors,
        total_files |-> Len(all_files),
        valid_count |-> Len(v.valid),
        missing_count |-> Len(v.missing),
        error_count |-> Len(v.errors),
        all_valid |-> Len(v.errors) = 0]

\* ProjectRepository.validate_project_references.
validate_project_references(w) ==
    LET all_files == get_all_file_references(w.h)
        v == validate_file_references(w, all_files)
    IN [valid |-> v.valid, missing |-> v.missing, errors |-> v.errors,
        total_files |-> Len(all_files),
        valid_count |-> Len(v.valid),
        missing_count |-> Len(v.missing),
        error_count |-> Len(v.errors),
        all_valid |-> Len(v.missing) = 0 /\ Len(v.errors) = 0]

\* validate_project_references that releases the resolver when it is done.
validate_project_references_releasing(w) ==
    Returns([w EXCEPT !.root = NoneStr], validate_project_references(w))

\* The call repo.validate_project_references(project): the method assigns to
\* nothing but its own result, so the world it leaves is the one it found.
validate_project_references_call(w) ==
    Returns(w, validate_project_references(w))

\* ProjectRepository.close_project.
close_project(w) == [w EXCEPT !.root = NoneStr, !.current = NoneStr]

---------------------------------------------------------------------------
(* Use cases.  A use case holds the repository and is handed the project   *)
(* in its request; its execute takes the world w and leaves a world.       *)

\* Folder.is_empty.
is_empty(h, f) ==
    /\ Cardinality(DOMAIN h.folder[f].subfolders) = 0
    /\ Cardinality(DOMAIN h.folder[f].files) = 0

\* Folder.get_subfolder.
get_subfolder(h, f, folder_name) ==
    IF folder_name \notin DOMAIN h.folder[f].subfolders
    THEN Raise(h, "ItemNotFoundError")
    ELSE Ok(h, h.folder[f].subfolders[folder_name])

\* The end of DeleteItemUseCase.execute: r is what remove_file or
\* remove_subfolder did.
item_deleted(w, r) ==
    IF r.exc # "none" THEN Raises(w, "UseCaseError")
    ELSE Returns([w EXCEPT !.h = [r.h EXCEPT !.last_modified = now]], r.ret)

\* DeleteItemUseCase.execute that deletes the file a removed reference is
\* stored at.
DeleteItemUseCase_execute_unlinking(w, folder_path, item_name, item_type) ==
    LET f == get_folder_by_path(w.h, folder_path) IN
    IF f.exc # "none" \/ item_type # "file" THEN Raises(w, "UseCaseError")
    ELSE IF item_name \notin DOMAIN w.h.folder[f.ret].files THEN Raises(w, "UseCaseError")
    ELSE item_deleted(
             [w EXCEPT !.disk = [x \in DOMAIN w.disk \ {resolve_relative_path(w.root,
                                    w.h.fileref[w.h.folder[f.ret].files[item_name]].relative_path).ret}
                                 |-> w.disk[x]]],
             remove_file(w.h, f.ret, item_name))

\* DeleteItemUseCase.execute without the test for an empty folder.
DeleteItemUseCase_execute_no_is_empty_test(w, folder_path, item_name, item_type) ==
    LET f == get_folder_by_path(w.h, folder_path) IN
    IF f.exc # "none" THEN Raises(w, "UseCaseError")
    ELSE IF item_type = "file" THEN item_deleted(w, remove_file(w.h, f.ret, item_name))
    ELSE item_deleted(w, remove_subfolder(w.h, f.ret, item_name))

\* DeleteItemUseCase.execute: every exception leaves as UseCaseError, the
\* InvalidOperationError of a folder that is not empty included.
DeleteItemUseCase_execute(w, folder_path, item_name, item_type) ==
    LET f == get_folder_by_path(w.h, folder_path) IN
    IF f.exc # "none" THEN Raises(w, "UseCaseError")
    ELSE IF item_type = "file" THEN item_deleted(w, remove_file(w.h, f.ret, item_name))
    ELSE IF get_subfolder(w.h, f.ret, item_name).exc # "none" THEN Raises(w, "UseCaseError")
    ELSE IF ~is_empty(w.h, get_subfolder(w.h, f.ret, item_name).ret) THEN Raises(w, "UseCaseError")
    ELSE item_deleted(w, remove_subfolder(w.h, f.ret, item_name))

S_unknown == <<"u", "n", "k", "n", "o", "w", "n">>
S_text == <<"t", "e", "x", "t">>
S_csv == <<"c", "s", "v">>
S_fasta == <<"f", "a", "s", "t", "a">>

\* What FormatDetector.detect_format_by_content returns, the confidence in
\* hundredths: the read failed, no line is left, a FASTA header, a separator
\* in three lines of four or in every line, or none of these.
DetectedFormats ==
    {[format |-> S_unknown, confidence |-> 0],
     [format |-> <<"e", "m", "p", "t", "y">>, confidence |-> 100],
     [format |-> S_fasta, confidence |-> 90],
     [format |-> S_csv, confidence |-> 75],
     [format |-> S_csv, confidence |-> 100],
     [format |-> S_text, confidence |-> 30]}

\* The end of ImportFileUseCase.execute that refuses a file whose format the
\* detector does not know.
file_imported_refusing_unknown(i, auto_detect_format, content_based) ==
    IF i.exc # "none" THEN Raises(i.w, "UseCaseError")
    ELSE IF auto_detect_format /\ content_based.format = S_unknown
    THEN Raises(i.w, "UseCaseError")
    ELSE IF auto_detect_format /\ content_based.confidence > 70
    THEN Returns([i.w EXCEPT !.h.fileref[i.ret].file_type = content_based.format], i.ret)
    ELSE Returns(i.w, i.ret)

\* ImportFileUseCase.execute after the repository's import i: the file type
\* is the detector's when its confidence is above 0.7.
file_imported(i, auto_detect_format, content_based) ==
    IF i.exc # "none" THEN Raises(i.w, "UseCaseError")
    ELSE IF auto_detect_format /\ content_based.confidence > 70
    THEN Returns([i.w EXCEPT !.h.fileref[i.ret].file_type = content_based.format], i.ret)
    ELSE Returns(i.w, i.ret)

\* ImportFileUseCase.execute; content_based is what the detector returned.
ImportFileUseCase_execute(w, source_file_path, target_folder_path, copy, copy_ok, auto_detect_format, content_based) ==
    file_imported(import_file_to_project(w, source_file_path, target_folder_path,
                                         copy, copy_ok),
                  auto_detect_format, content_based)

---------------------------------------------------------------------------
(* The state machine of ProjectRepository: one repository and the project  *)
(* its caller holds, on a disk that has a directory /s with the file       *)
(* /s/a.fasta.  Each action is one call, run to its end, or one change     *)
(* another program makes to the disk.                                      *)

S_Sequences == <<"S", "e", "q", "u", "e", "n", "c", "e", "s">>
S_a_fasta == <<"a", ".", "f", "a", "s", "t", "a">>
S_a_1_fasta == <<"a", "_", "1", ".", "f", "a", "s", "t", "a">>
S_a_1_2_fasta == <<"a", "_", "1", "_", "2", ".", "f", "a", "s", "t", "a">>
P_Root_Sequences == JoinPath(<<S_Root, S_Sequences>>)

D_s == <<"/", "s">>
D_d == <<"/", "d">>
D_e == <<"/", "e">>
F_source == D_s \o S_slash \o S_a_fasta
F_absent == D_s \o <<"/", "b">>
F_d_p == D_d \o <<"/", "p">>
F_d_project == F_d_p \o S_oligoproj
F_d_Project == F_d_p \o <<".", "O", "l", "i", "g", "o", "p", "r", "o", "j">>
F_e_project == D_e \o <<"/", "p">> \o S_oligoproj
F_nested == F_d_project \o <<"/", "q">>

\* The most paths the disk holds, and the most calls a behaviour has.
MaxPaths == 8
MaxCalls == 5

ProjectNameInputs == {ProjectName, S_sp}
CreatePathInputs == {F_d_p, F_d_project, F_d_Project, F_nested}
LoadPathInputs == {F_d_p, F_d_project, F_e_project, D_d}
SourceInputs == {F_source, F_absent, D_s}
TargetInputs == {S_Root, P_Root_Sequences}

\* Documents another program leaves in a project file: no JSON, the JSON
\* values null and [], and objects that lack a required key.
ForeignDocuments ==
    {RawFile(S_t),
     Complete(PyValue("NoneType")),
     Complete(PyValue("list")),
     Complete([project_info |-> [id |-> ProjectId, name |-> ProjectName]]),
     Complete([project_info |-> PyValue("NoneType"),
               folder_structure |-> [id |-> RootId, name |-> S_Root]]),
     Complete([project_info |-> [id |-> ProjectId, name |-> ProjectName,
                                 created_date |-> isoformat(0),
                                 last_modified |-> isoformat(0)],
               folder_structure |-> [id |-> RootId, name |-> S_Root]])}

\* The caller holds a project.
Holding == folder # <<>>

RepoInit ==
    /\ folder = <<>>
    /\ fileref = <<>>
    /\ last_modified = 0
    /\ project_file_path = NoneStr
    /\ now = 0
    /\ platform = "posix"
    /\ project_file = NoFile
    /\ temp_file = NoFile
    /\ backup_files = <<>>
    /\ pc = "idle"
    /\ save = NoCall
    /\ outcome = "none"
    /\ disk = Put(Put(<<>>, D_s, Directory), F_source, RawFile(S_t))
    /\ project_root = NoneStr
    /\ current_project_path = NoneStr
    /\ calls = 0
    /\ Unserved

\* The call has run and left the world w; the state machine follows the
\* first MaxCalls calls.
Becomes(w) ==
    \E h \in {IF w.h.folder = <<>> THEN w.h ELSE Collect(w.h)} :
        /\ WithinBounds(h)
        /\ Cardinality(DOMAIN w.disk) <= MaxPaths
        /\ calls < MaxCalls
        /\ calls' = calls + 1
        /\ folder' = h.folder
        /\ fileref' = h.fileref
        /\ last_modified' = h.last_modified
        /\ project_file_path' = w.path
        /\ disk' = w.disk
        /\ project_root' = w.root
        /\ current_project_path' = w.current
        /\ UNCHANGED <<now, platform, project_file, temp_file, backup_files,
                       pc, save, outcome, current_project, project_modified>>

CreateNewProject ==
    \E name \in ProjectNameInputs, path \in CreatePathInputs,
       io \in {"ok", "write_fails"} :
        Becomes(create_new_project(World, name, path, io).w)

LoadProject ==
    \E path \in LoadPathInputs : Becomes(load_project_at(World, path).w)

SaveProjectCall ==
    /\ Holding
    /\ \E backup \in BOOLEAN, io \in {"ok", "backup_fails", "write_fails"} :
          Becomes(save_project(World, backup, io).w)

ImportFileToProject ==
    /\ Holding
    /\ \E source \in SourceInputs, target \in TargetInputs,
          copy \in BOOLEAN, copy_ok \in BOOLEAN :
          Becomes(import_file_to_project(World, source, target, copy, copy_ok).w)

CreateSequencesFolder ==
    /\ Holding
    /\ Becomes([World EXCEPT !.h = create_folder_at_path(Heap, S_Root, S_Sequences).h])

\* A reference that was not imported: project.add_file_to_path(...).
AddReference ==
    /\ Holding
    /\ \E target \in TargetInputs, name \in {S_a_fasta, S_a_1_fasta} :
          LET c == NewFileReference(Heap, name, F_source, S_rel, S_empty, 0, EmptyDict)
          IN Becomes([World EXCEPT !.h = add_file_to_path(c.h, target, c.ret).h])

RemoveReference ==
    /\ Holding
    /\ \E f \in DOMAIN folder, n \in {S_a_fasta, S_a_1_fasta} :
          Becomes([World EXCEPT !.h = remove_file(Heap, f, n).h])

CloseProject == Becomes(close_project(World))

\* Another program writes a document where a project file is expected.
WriteForeignDocument ==
    /\ is_dir(disk, D_d)
    /\ ~is_dir(disk, F_d_project)
    /\ \E doc \in ForeignDocuments :
          Becomes([World EXCEPT !.disk = Put(@, F_d_project, doc)])

\* os.rename(src, dst) of a directory: everything beneath src is beneath dst.
move_dir(d, src, dst) ==
    [x \in {p \in DOMAIN d : ~IsUnder(p, src)} \cup
           {dst \o SubSeq(p, Len(src) + 1, Len(p)) : p \in {q \in DOMAIN d : IsUnder(q, src)}} |->
        IF x \in DOMAIN d /\ ~IsUnder(x, src) THEN d[x]
        ELSE d[src \o SubSeq(x, Len(dst) + 1, Len(x))]]

\* The user moves the project directory /d to /e.
MoveProjectDirectory ==
    /\ is_dir(disk, D_d)
    /\ ~exists(disk, D_e)
    /\ Becomes([World EXCEPT !.disk = move_dir(@, D_d, D_e)])

RepoNext ==
    \/ CreateNewProject
    \/ LoadProject
    \/ SaveProjectCall
    \/ ImportFileToProject
    \/ CreateSequencesFolder
    \/ AddReference
    \/ RemoveReference
    \/ CloseProject
    \/ WriteForeignDocument
    \/ MoveProjectDirectory

RepoSpec == RepoInit /\ [][RepoNext]_vars

---------------------------------------------------------------------------
(* The state machine of a project on disk: the project /d/p.oligoproj,     *)
(* open, whose folder Root/Sequences holds the reference to the imported   *)
(* copy of /s/a.fasta.  Each action is one call that mutates the tree.     *)

\* No project yet: the disk holds the directory /s with the file /s/a.fasta.
NoProject ==
    [h |-> [folder |-> <<>>, fileref |-> <<>>, last_modified |-> 0, assignments |-> 0],
     path |-> NoneStr,
     disk |-> Put(Put(<<>>, D_s, Directory), F_source, RawFile(S_t)),
     root |-> NoneStr, current |-> NoneStr]

\* create_new_project("P", "/d/p.oligoproj"), create_folder_at_path("Root",
\* "Sequences") and import_file_to_project("/s/a.fasta", "Root/Sequences").
sequences_created(w) ==
    [w EXCEPT !.h = create_folder_at_path(w.h, S_Root, S_Sequences).h]

ImportedProject ==
    import_file_to_project(
        sequences_created(create_new_project(NoProject, ProjectName, F_d_project, "ok").w),
        F_source, P_Root_Sequences, TRUE, TRUE).w

TreeOnDiskInit ==
    /\ now = 0
    /\ platform = "posix"
    /\ project_file = NoFile
    /\ temp_file = NoFile
    /\ backup_files = <<>>
    /\ pc = "idle"
    /\ save = NoCall
    /\ outcome = "none"
    /\ calls = 0
    /\ Unserved
    /\ \E w \in {ImportedProject} :
          /\ folder = w.h.folder
          /\ fileref = w.h.fileref
          /\ last_modified = w.h.last_modified
          /\ project_file_path = w.path
          /\ disk = w.disk
          /\ project_root = w.root
          /\ current_project_path = w.current

TreePathInputs == {S_Root, P_Root_Sequences, P_Root_a}
TreeNameInputs == {S_Sequences, S_a_fasta, S_a}

\* A method of Project or Folder has run on the project of the world: it
\* holds no repository, no resolver and no path, and r is what it did.
Mutates(r) == Becomes([World EXCEPT !.h = r.h])

FolderCreated ==
    \E p \in TreePathInputs, n \in TreeNameInputs :
        Mutates(create_folder_at_path(Heap, p, n))

ReferenceAdded ==
    \E p \in TreePathInputs, n \in TreeNameInputs :
        Mutates(add_file_to_path(NewFileReference(Heap, n, F_source, S_rel, S_empty, 0, EmptyDict).h,
                                 p,
                                 NewFileReference(Heap, n, F_source, S_rel, S_empty, 0, EmptyDict).ret))

ItemMoved ==
    \E sp \in TreePathInputs, n \in TreeNameInputs, dp \in TreePathInputs :
        Mutates(move_item(Heap, sp, n, dp))

FileCopied ==
    \E sp \in TreePathInputs, n \in TreeNameInputs, dp \in TreePathInputs,
       nn \in {NoneStr, S_a} :
        Mutates(copy_file(Heap, sp, n, dp, nn))

SubfolderRenamed ==
    \E f \in DOMAIN folder, o \in TreeNameInputs, n \in TreeNameInputs :
        Mutates(rename_subfolder(Heap, f, o, n))

FileRenamed ==
    \E f \in DOMAIN folder, o \in TreeNameInputs, n \in TreeNameInputs :
        Mutates(rename_file(Heap, f, o, n))

FileRemoved ==
    \E f \in DOMAIN folder, n \in TreeNameInputs :
        Mutates(remove_file(Heap, f, n))

SubfolderRemoved ==
    \E f \in DOMAIN folder, n \in TreeNameInputs :
        Mutates(remove_subfolder(Heap, f, n))

ItemDeleted ==
    \E p \in TreePathInputs, n \in TreeNameInputs, t \in {"file", "folder"} :
        Becomes(DeleteItemUseCase_execute(World, p, n, t).w)

TreeOnDiskNext ==
    \/ FolderCreated
    \/ ReferenceAdded
    \/ ItemMoved
    \/ FileCopied
    \/ SubfolderRenamed
    \/ FileRenamed
    \/ FileRemoved
    \/ SubfolderRemoved
    \/ ItemDeleted

TreeOnDiskSpec == TreeOnDiskInit /\ [][TreeOnDiskNext]_vars

---------------------------------------------------------------------------
(* The state machine of the project directory: the project of              *)
(* ImportedProject, loaded again by the path /d/p.oligoproj or by the path *)
(* /d/../d/p.oligoproj of the same file.  Each action is one FileManager   *)
(* call or one change another program makes in the project directory.      *)

S_x == <<"x">>
S_x_y == <<"x", "/", "y">>
D_d_up_d == <<"/", "d", "/", ".", ".", "/", "d">>

ProjectPathInputs == {F_d_project, D_d_up_d \o S_slash \o PathName(F_d_project)}
DirectoryInputs == {S_x, S_x_y, S_imported_files}

CleanupInit ==
    /\ now = 0
    /\ platform = "posix"
    /\ project_file = NoFile
    /\ temp_file = NoFile
    /\ backup_files = <<>>
    /\ pc = "idle"
    /\ save = NoCall
    /\ outcome = "none"
    /\ calls = 0
    /\ Unserved
    /\ \E w \in {ImportedProject}, path \in ProjectPathInputs :
          /\ folder = w.h.folder
          /\ fileref = w.h.fileref
          /\ last_modified = w.h.last_modified
          /\ project_file_path = path
          /\ disk = w.disk
          /\ project_root = set_project_root(path)
          /\ current_project_path = path

CreateDirectory ==
    \E relative_path \in DirectoryInputs :
        Becomes(create_directory(World, relative_path).w)

\* rmdir is refused for the directories in locked.
CleanupEmptyDirectories ==
    \E relative_path \in DirectoryInputs, locked \in SUBSET {D_d \o S_slash \o S_x} :
        Becomes(cleanup_empty_directories(World, relative_path, locked).w)

\* Another program deletes a file of the project directory: the project
\* file, or the imported copy.
DeleteFile ==
    \E p \in {F_d_project, D_d \o S_slash \o S_imported_files \o S_slash \o S_a_fasta} :
        /\ is_file(disk, p)
        /\ Becomes([World EXCEPT !.disk = [x \in DOMAIN disk \ {p} |-> disk[x]]])

CleanupNext ==
    \/ CreateDirectory
    \/ CleanupEmptyDirectories
    \/ DeleteFile

CleanupSpec == CleanupInit /\ [][CleanupNext]_vars

---------------------------------------------------------------------------
(* Properties of the tree.                                                 *)

Children(h, f) == get_path_items(h, f)

\* The dict d with the key k bound to v and every other key as in d0.
IsPut(d, d0, k, v) ==
    /\ DOMAIN d = (DOMAIN d0) \cup {k}
    /\ d[k] = v
    /\ \A x \in (DOMAIN d0) \ {k} : d[x] = d0[x]

\* The dict d is d0 without the key k.
IsDel(d, d0, k) ==
    /\ DOMAIN d = (DOMAIN d0) \ {k}
    /\ \A x \in DOMAIN d : d[x] = d0[x]

SameChildMaps(h, f) ==
    /\ h.folder[f].subfolders = folder[f].subfolders
    /\ h.folder[f].files = folder[f].files

ValidFolderNames == {n \in FolderNameInputs : NewFolder(Heap, n).exc = "none"}
ValidFileNames ==
    {n \in FileNameInputs :
        NewFileReference(Heap, n, S_src, S_rel, S_empty, 5, EmptyDict).exc = "none"}

\* C1: after every call, in every folder, no name is a key of both the
\* subfolders map and the files map.
C1_NoSharedName ==
    \A f \in DOMAIN folder :
        (DOMAIN folder[f].subfolders) \cap (DOMAIN folder[f].files) = {}

\* A folder holding a subfolder and a file, where adding a file under the
\* subfolder's name and a subfolder under the file's name are both refused.
C1_Witness ==
    \E f \in DOMAIN folder :
        /\ \E n \in (DOMAIN folder[f].subfolders) \cap ValidFileNames :
              LET c == NewFileReference(Heap, n, S_src, S_rel, S_empty, 5, EmptyDict)
              IN add_file(c.h, f, c.ret).exc = "DuplicateNameError"
        /\ \E n \in (DOMAIN folder[f].files) \cap ValidFolderNames :
              LET c == NewFolder(Heap, n)
              IN add_subfolder(c.h, f, c.ret).exc = "DuplicateNameError"

\* C2: a move_item call that returns without error leaves the moved item a
\* child of the destination folder and detaches nothing: every folder and
\* file reference of the tree is still reachable from the root folder.
C2_MoveDetachesNothing ==
    \A sp \in PathInputs, n \in Names, dp \in PathInputs :
        LET r == move_item(Heap, sp, n, dp)
            s == get_folder_by_path(Heap, sp).ret
            d == get_folder_by_path(Heap, dp).ret
        IN r.exc = "none" =>
              /\ n \in Children(r.h, d)
              /\ TreeFolders(r.h) = TreeFolders(Heap)
              /\ TreeFiles(r.h) = TreeFiles(Heap)

\* C3: once the root folder has a subfolder named "Root", the path
\* "Root/Root" denotes that subfolder.
C3_RootRootIsTheChild ==
    S_Root \in DOMAIN folder[RootId].subfolders =>
        LET r == get_folder_by_path(Heap, P_Root_Root)
        IN r.exc = "none" /\ r.ret = folder[RootId].subfolders[S_Root]

\* C7: every folder name and every file reference name of the tree is
\* non-empty and holds no reserved character.
NameAllowed(s) == s # <<>> /\ ~HasInvalidChar(s)

C7_NamesAllowed ==
    /\ \A f \in DOMAIN folder : NameAllowed(folder[f].name)
    /\ \A r \in DOMAIN fileref : NameAllowed(fileref[r].name)

\* C8, add_subfolder: raises DuplicateNameError exactly when the new folder's
\* name is a child of either kind; then the maps are unchanged, otherwise
\* exactly that folder is inserted under its name.
AddSubfolderContract(f, n) ==
    LET c == NewFolder(Heap, n)
        r == add_subfolder(c.h, f, c.ret)
    IN /\ r.exc \in {"none", "DuplicateNameError"}
       /\ (r.exc = "DuplicateNameError") <=> (n \in Children(Heap, f))
       /\ r.exc = "DuplicateNameError" => SameChildMaps(r.h, f)
       /\ r.exc = "none" =>
             /\ IsPut(r.h.folder[f].subfolders, folder[f].subfolders, n, c.ret)
             /\ n \notin DOMAIN folder[f].subfolders
             /\ r.h.folder[f].files = folder[f].files

\* C8, add_file: the same for a file reference.
AddFileContract(f, n) ==
    LET c == NewFileReference(Heap, n, S_src, S_rel, S_empty, 5, EmptyDict)
        r == add_file(c.h, f, c.ret)
    IN /\ r.exc \in {"none", "DuplicateNameError"}
       /\ (r.exc = "DuplicateNameError") <=> (n \in Children(Heap, f))
       /\ r.exc = "DuplicateNameError" => SameChildMaps(r.h, f)
       /\ r.exc = "none" =>
             /\ IsPut(r.h.folder[f].files, folder[f].files, n, c.ret)
             /\ n \notin DOMAIN folder[f].files
             /\ r.h.folder[f].subfolders = folder[f].subfolders

\* C8, remove_subfolder: raises ItemNotFoundError exactly when the name is no
\* subfolder; then the maps are unchanged, otherwise exactly that subfolder is
\* detached and returned.
RemoveSubfolderContract(f, n) ==
    LET r == remove_subfolder(Heap, f, n)
    IN /\ r.exc \in {"none", "ItemNotFoundError"}
       /\ (r.exc = "ItemNotFoundError") <=> (n \notin DOMAIN folder[f].subfolders)
       /\ r.exc = "ItemNotFoundError" => SameChildMaps(r.h, f)
       /\ r.exc = "none" =>
             /\ r.ret = folder[f].subfolders[n]
             /\ IsDel(r.h.folder[f].subfolders, folder[f].subfolders, n)
             /\ n \notin DOMAIN r.h.folder[f].subfolders
             /\ r.h.folder[f].files = folder[f].files

\* C8, remove_file: the same for a file reference.
RemoveFileContract(f, n) ==
    LET r == remove_file(Heap, f, n)
    IN /\ r.exc \in {"none", "ItemNotFoundError"}
       /\ (r.exc = "ItemNotFoundError") <=> (n \notin DOMAIN folder[f].files)
       /\ r.exc = "ItemNotFoundError" => SameChildMaps(r.h, f)
       /\ r.exc = "none" =>
             /\ r.ret = folder[f].files[n]
             /\ IsDel(r.h.folder[f].files, folder[f].files, n)
             /\ n \notin DOMAIN r.h.folder[f].files
             /\ r.h.folder[f].subfolders = folder[f].subfolders

\* C8: in every state the tree reaches, every add and remove call on every
\* folder keeps its contract.
C8_AddRemoveContract ==
    \A f \in DOMAIN folder :
        /\ \A n \in ValidFolderNames : AddSubfolderContract(f, n)
        /\ \A n \in ValidFileNames : AddFileContract(f, n)
        /\ \A n \in Names : RemoveSubfolderContract(f, n)
        /\ \A n \in Names : RemoveFileContract(f, n)

\* A folder where all the cases meet: a name that is a file (add_subfolder and
\* add_file of it raise, remove_file detaches it, remove_subfolder raises) and
\* a name that is free (both adds insert).
C8_Witness ==
    \E f \in DOMAIN folder, n \in ValidFolderNames \cap ValidFileNames,
       m \in ValidFolderNames :
        LET cf == NewFolder(Heap, n)
            cr == NewFileReference(Heap, n, S_src, S_rel, S_empty, 5, EmptyDict)
            df == NewFolder(Heap, m)
        IN /\ n \in DOMAIN folder[f].files
           /\ folder[f].subfolders # EmptyDict
           /\ add_subfolder(cf.h, f, cf.ret).exc = "DuplicateNameError"
           /\ add_file(cr.h, f, cr.ret).exc = "DuplicateNameError"
           /\ remove_file(Heap, f, n).ret = folder[f].files[n]
           /\ remove_subfolder(Heap, f, n).exc = "ItemNotFoundError"
           /\ add_subfolder(df.h, f, df.ret).exc = "none"

\* C9, rename_subfolder: ItemNotFoundError if old is no subfolder, otherwise
\* DuplicateNameError if new is a child of either kind (new = old included);
\* a raising call changes nothing; a successful call leaves the same folder
\* under new only, named new, and as many children as before.
RenameSubfolderContract(f, o, n) ==
    LET r == rename_subfolder(Heap, f, o, n)
    IN /\ r.exc = (IF o \notin DOMAIN folder[f].subfolders THEN "ItemNotFoundError"
                   ELSE IF n \in Children(Heap, f) THEN "DuplicateNameError"
                   ELSE "none")
       /\ r.exc # "none" => r.h = Heap
       /\ r.exc = "none" =>
             LET c == folder[f].subfolders[o] IN
             /\ n \in DOMAIN r.h.folder[f].subfolders
             /\ r.h.folder[f].subfolders[n] = c
             /\ o \notin DOMAIN r.h.folder[f].subfolders
             /\ r.h.folder[c].name = n
             /\ Cardinality(Children(r.h, f)) = Cardinality(Children(Heap, f))
             /\ \A k \in (DOMAIN folder[f].subfolders) \ {o} :
                   /\ k \in DOMAIN r.h.folder[f].subfolders
                   /\ r.h.folder[f].subfolders[k] = folder[f].subfolders[k]
             /\ r.h.folder[f].files = folder[f].files

\* C9, rename_file: the same for a file reference.
RenameFileContract(f, o, n) ==
    LET r == rename_file(Heap, f, o, n)
    IN /\ r.exc = (IF o \notin DOMAIN folder[f].files THEN "ItemNotFoundError"
                   ELSE IF n \in Children(Heap, f) THEN "DuplicateNameError"
                   ELSE "none")
       /\ r.exc # "none" => r.h = Heap
       /\ r.exc = "none" =>
             LET c == folder[f].files[o] IN
             /\ n \in DOMAIN r.h.folder[f].files
             /\ r.h.folder[f].files[n] = c
             /\ o \notin DOMAIN r.h.folder[f].files
             /\ r.h.fileref[c].name = n
             /\ Cardinality(Children(r.h, f)) = Cardinality(Children(Heap, f))
             /\ \A k \in (DOMAIN folder[f].files) \ {o} :
                   /\ k \in DOMAIN r.h.folder[f].files
                   /\ r.h.folder[f].files[k] = folder[f].files[k]
             /\ r.h.folder[f].subfolders = folder[f].subfolders

\* C9: in every state the tree reaches, every rename call on every folder
\* keeps its contract.
C9_RenameContract ==
    \A f \in DOMAIN folder, o \in Names, n \in RenameInputs :
        /\ RenameSubfolderContract(f, o, n)
        /\ RenameFileContract(f, o, n)

\* A folder with a subfolder o and a file m: renaming o to itself and to m
\* raises DuplicateNameError, renaming it to a free name succeeds, and
\* renaming the file under the name o as a subfolder raises ItemNotFoundError.
C9_Witness ==
    \E f \in DOMAIN folder, o \in RenameInputs, m \in RenameInputs,
       n \in RenameInputs :
        /\ o \in DOMAIN folder[f].subfolders
        /\ m \in DOMAIN folder[f].files
        /\ rename_subfolder(Heap, f, o, o).exc = "DuplicateNameError"
        /\ rename_subfolder(Heap, f, o, m).exc = "DuplicateNameError"
        /\ rename_subfolder(Heap, f, m, n).exc = "ItemNotFoundError"
        /\ rename_subfolder(Heap, f, o, n).exc = "none"
        /\ rename_file(Heap, f, m, n).exc = "none"

MoveBackCase(sp, x, dp) ==
    LET a == get_folder_by_path(Heap, sp)
        b == get_folder_by_path(Heap, dp)
    IN /\ a.exc = "none"
       /\ b.exc = "none"
       /\ a.ret # b.ret
       /\ x \in Children(Heap, a.ret)
       /\ x \notin Children(Heap, b.ret)
       /\ x \in DOMAIN folder[a.ret].subfolders =>
             b.ret \notin ReachFolders(Heap, {folder[a.ret].subfolders[x]})

\* C10: when X is a child of the folder at sp, the folder at dp is another
\* folder with no child named X that is neither X nor inside X, moving X
\* from sp to dp and back succeeds twice and leaves every folder with the
\* child maps it had: the same names bound to the same identifiers.
C10_MoveThenMoveBack ==
    \A sp \in PathInputs, x \in Names, dp \in PathInputs :
        MoveBackCase(sp, x, dp) =>
            LET r1 == move_item(Heap, sp, x, dp)
                r2 == move_item(r1.h, dp, x, sp)
            IN /\ r1.exc = "none"
               /\ r2.exc = "none"
               /\ DOMAIN r2.h.folder = DOMAIN folder
               /\ DOMAIN r2.h.fileref = DOMAIN fileref
               /\ \A f \in DOMAIN folder : SameChildMaps(r2.h, f)
               /\ \A f \in DOMAIN folder : r2.h.folder[f].name = folder[f].name
               /\ \A r \in DOMAIN fileref : r2.h.fileref[r].name = fileref[r].name

\* The case happens for a folder that holds a file and for a file: a folder
\* X with a file beneath it can be moved to another folder and back.
C10_Witness ==
    \E sp \in PathInputs, x \in Names, dp \in PathInputs :
        /\ MoveBackCase(sp, x, dp)
        /\ LET a == get_folder_by_path(Heap, sp).ret IN
           /\ x \in DOMAIN folder[a].subfolders
           /\ folder[folder[a].subfolders[x]].files # EmptyDict
           /\ move_item(move_item(Heap, sp, x, dp).h, dp, x, sp).exc = "none"

\* The trees under f1 in h1 and under f2 in h2 have the same folder names,
\* file names, file types, sizes and metadata at every depth.
RECURSIVE SameTree(_, _, _, _)
SameTree(h1, f1, h2, f2) ==
    LET a == h1.folder[f1]
        b == h2.folder[f2]
    IN /\ a.name = b.name
       /\ DOMAIN a.subfolders = DOMAIN b.subfolders
       /\ DOMAIN a.files = DOMAIN b.files
       /\ \A n \in DOMAIN a.files :
             LET x == h1.fileref[a.files[n]]
                 y == h2.fileref[b.files[n]]
             IN /\ x.name = y.name
                /\ x.file_type = y.file_type
                /\ x.size_bytes = y.size_bytes
                /\ x.metadata = y.metadata
       /\ \A n \in DOMAIN a.subfolders :
             SameTree(h1, a.subfolders[n], h2, b.subfolders[n])

\* What save_project leaves in the project file when nothing fails.
SavedFile(h) == Complete(json_dumps(Project_to_dict(h, project_file_path)).text)

\* C6: for every tree built through the Project and Folder operations,
\* loading the file save_project writes succeeds and yields a tree with the
\* same folder names, file names, file types, sizes and metadata at every
\* depth.
C6_SaveLoadRoundTrip ==
    /\ json_dumps(Project_to_dict(Heap, project_file_path)).exc = "none"
    /\ LET r == load_project(SavedFile(Heap)) IN
       /\ r.exc = "none"
       /\ SameTree(Heap, RootId, r.h, r.ret)

\* C4: whenever a save_project call can be interrupted, and after it has
\* been, the project file holds the complete document it held before the
\* call or the complete new document, and the previous document is in place
\* until the rename has happened.
C4_InterruptedSaveIsAllOrNothing ==
    pc # "idle" =>
        /\ \/ project_file = save.before
           \/ project_file = Complete(save.json_data)
        /\ pc \in {"backup", "serialize", "temp_open", "temp_write", "move"}
              => project_file = save.before

\* C5: whenever save_project has raised BackupError, JsonSerializationError
\* or ProjectFileError, the project file holds exactly what it held before
\* the call.
C5_FailedSaveLeavesFile ==
    (pc = "idle" /\ outcome \in {"BackupError", "JsonSerializationError",
                                  "ProjectFileError"})
        => project_file = save.before


---------------------------------------------------------------------------
(* Properties of copy_file and of the modification timestamp.              *)

\* What a successful copy_file(sp, n, dp, nn) on the tree of the state does,
\* apart from the source folder: the copy has a new identifier, it is the one
\* new child of the destination folder, the original reference is as it was,
\* and update_metadata on either of the two leaves the metadata of the other.
CopyEffect(sp, n, dp, nn) ==
    LET r == copy_file(Heap, sp, n, dp, nn)
        s == get_folder_by_path(Heap, sp).ret
        d == get_folder_by_path(Heap, dp).ret
        orig == folder[s].files[n]
        nm == r.h.fileref[r.ret].name
    IN /\ r.ret \notin DOMAIN fileref
       /\ r.ret # orig
       /\ IsPut(r.h.folder[d].files, folder[d].files, nm, r.ret)
       /\ nm \notin DOMAIN folder[d].files
       /\ r.h.folder[d].subfolders = folder[d].subfolders
       /\ r.h.fileref[orig] = fileref[orig]
       /\ r.h.fileref[r.ret].metadata = fileref[orig].metadata
       /\ LET u == update_metadata(r.h, r.ret, "note", PyStr(S_t)) IN
          /\ u.fileref[orig].metadata = fileref[orig].metadata
          /\ "note" \in DOMAIN u.fileref[r.ret].metadata
       /\ LET u == update_metadata(r.h, orig, "note", PyStr(S_t)) IN
          /\ u.fileref[r.ret].metadata = fileref[orig].metadata
          /\ "note" \in DOMAIN u.fileref[orig].metadata

\* C11 as stated: every successful copy_file has the effect above and leaves
\* the source folder unchanged.
C11_CopyLeavesSourceFolder ==
    \A sp \in PathInputs, n \in FileLookupInputs, dp \in PathInputs,
       nn \in NewNameInputs :
        LET r == copy_file(Heap, sp, n, dp, nn)
            s == get_folder_by_path(Heap, sp).ret
        IN r.exc = "none" =>
              /\ CopyEffect(sp, n, dp, nn)
              /\ r.h.folder[s] = folder[s]

\* C11, amended: every successful copy_file has the effect above and leaves
\* the source folder unchanged unless the source folder is the destination
\* folder, which gains the copy as its one new child.
C11_CopyIsIndependent ==
    \A sp \in PathInputs, n \in FileLookupInputs, dp \in PathInputs,
       nn \in NewNameInputs :
        LET r == copy_file(Heap, sp, n, dp, nn)
            s == get_folder_by_path(Heap, sp).ret
            d == get_folder_by_path(Heap, dp).ret
        IN r.exc = "none" =>
              /\ CopyEffect(sp, n, dp, nn)
              /\ s # d => r.h.folder[s] = folder[s]
              /\ r.h.folder[s].subfolders = folder[s].subfolders
              /\ \A m \in DOMAIN folder[s].files :
                    r.h.folder[s].files[m] = folder[s].files[m]

\* A file with metadata is copied into another folder and, under a new name,
\* into its own folder.
C11_Witness ==
    \E sp \in PathInputs, n \in FileLookupInputs, dp \in PathInputs,
       nn \in NewNameInputs :
        /\ copy_file(Heap, sp, n, dp, nn).exc = "none"
        /\ copy_file(Heap, sp, n, sp, nn).exc = "none"
        /\ get_folder_by_path(Heap, sp).ret # get_folder_by_path(Heap, dp).ret
        /\ fileref[folder[get_folder_by_path(Heap, sp).ret].files[n]].metadata
              # EmptyDict

\* C12: in every state, each create_folder_at_path, add_file_to_path,
\* move_item and copy_file call that returns assigns Project.last_modified
\* exactly once, the value being the time of the call.
C12_OneTimestampPerCall ==
    LET once(r) == r.exc = "none" =>
                      r.h.assignments = 1 /\ r.h.last_modified = now
    IN /\ \A p \in PathInputs, n \in FolderNameInputs :
             once(create_folder_at_path(Heap, p, n))
       /\ \A p \in PathInputs, n \in FileNameInputs :
             LET c == NewFileReference(Heap, n, S_src, S_rel, S_empty, 5, EmptyDict)
             IN c.exc = "none" => once(add_file_to_path(c.h, p, c.ret))
       /\ \A sp \in PathInputs, n \in Names, dp \in PathInputs :
             once(move_item(Heap, sp, n, dp))
       /\ \A sp \in PathInputs, n \in FileLookupInputs, dp \in PathInputs,
             nn \in NewNameInputs :
             once(copy_file(Heap, sp, n, dp, nn))

\* A state where each of the four calls returns, move_item for a folder and
\* for a file, both of which take two primitive folder operations.
C12_Witness ==
    /\ \E p \in PathInputs, n \in FolderNameInputs :
          create_folder_at_path(Heap, p, n).exc = "none"
    /\ \E p \in PathInputs, n \in FileNameInputs :
          LET c == NewFileReference(Heap, n, S_src, S_rel, S_empty, 5, EmptyDict)
          IN c.exc = "none" /\ add_file_to_path(c.h, p, c.ret).exc = "none"
    /\ \E sp \in PathInputs, n \in Names, dp \in PathInputs :
          /\ move_item(Heap, sp, n, dp).exc = "none"
          /\ n \in DOMAIN folder[get_folder_by_path(Heap, sp).ret].subfolders
    /\ \E sp \in PathInputs, n \in Names, dp \in PathInputs :
          /\ move_item(Heap, sp, n, dp).exc = "none"
          /\ n \in DOMAIN folder[get_folder_by_path(Heap, sp).ret].files
    /\ \E sp \in PathInputs, n \in FileLookupInputs, dp \in PathInputs,
          nn \in NewNameInputs :
          copy_file(Heap, sp, n, dp, nn).exc = "none"

---------------------------------------------------------------------------
(* Properties of the repository.                                           *)

\* The project the call r returned: an empty root folder, saved at the path
\* p, with the resolver bound to the directory of p.
ReturnsNewProject(r, p) ==
    /\ r.exc = "none"
    /\ DOMAIN r.w.h.folder = {RootId}
    /\ r.w.h.folder[RootId].subfolders = EmptyDict
    /\ r.w.h.folder[RootId].files = EmptyDict
    /\ is_file(r.w.disk, p)
    /\ r.w.root = PathParent(p)

\* The path create_new_project works on: the extension is replaced unless it
\* is .oligoproj in some spelling.
S_Oligoproj == <<".", "O", "l", "i", "g", "o", "p", "r", "o", "j">>
ExtensionForced(path) ==
    IF PathSuffix(path) \in {S_oligoproj, S_Oligoproj} THEN path
    ELSE SubSeq(path, 1, Len(path) - Len(PathSuffix(path))) \o S_oligoproj

\* Nothing but new directories: every path of d0 is in d with its content,
\* and every other path of d is a directory.
OnlyDirectoriesMade(d, d0) ==
    /\ \A x \in DOMAIN d0 : x \in DOMAIN d /\ d[x] = d0[x]
    /\ \A x \in (DOMAIN d) \ (DOMAIN d0) : d[x] = Directory

ValidJson(file) == file[1].written = Chunks /\ "raw" \notin DOMAIN file[1].text

\* The JSON value v is an object with all the keys of required.
HasKeys(v, required) == IsObject(v) /\ required \subseteq DOMAIN v

\* The document lacks a required key: project_info or folder_structure, or
\* one of their required fields.
LacksRequiredKey(doc) ==
    \/ ~HasKeys(doc, {"project_info", "folder_structure"})
    \/ ~HasKeys(doc.project_info, {"id", "name", "created_date", "last_modified"})
    \/ ~HasKeys(doc.folder_structure, {"id", "name"})

\* C14: in every state, load_project raises ProjectFileError for a path
\* that does not exist or is no file, JsonSerializationError for a file that
\* holds no valid JSON, and CorruptedProjectError for a valid JSON document
\* that lacks a required key.
C14_LoadErrorClasses ==
    \A path \in LoadPathInputs :
        LET r == load_project_at(World, path) IN
        IF ~exists(disk, path) \/ ~is_file(disk, path)
        THEN r.exc = "ProjectFileError"
        ELSE IF ~ValidJson(disk[path])
        THEN r.exc = "JsonSerializationError"
        ELSE LacksRequiredKey(disk[path][1].text) => r.exc = "CorruptedProjectError"

\* The names of the references validate_project_references classifies valid.
ValidNames(w) ==
    {validate_project_references(w).valid[i] :
        i \in 1..Len(validate_project_references(w).valid)}

\* The world once the user has moved the project directory /d to /e.
Moved == [World EXCEPT !.disk = move_dir(@, D_d, D_e)]

\* load_project(F_d_project) returns, and the project directory can be moved.
MoveCase ==
    /\ is_file(disk, F_d_project)
    /\ ~exists(disk, D_e)
    /\ load_project_at(World, F_d_project).exc = "none"

C16_OneNewBackupPerSave ==
    outcome = "saved" /\ save.backup /\ save.before # NoFile =>
        /\ Cardinality((DOMAIN backup_files) \ save.backups) = 1
        /\ \A b \in (DOMAIN backup_files) \ save.backups :
              backup_files[b] = save.before
        /\ load_project(project_file).exc = "none"

\* The name is base with _ and a number put before the extension.
NumericSuffixed(name, base) ==
    LET stem == PathStem(name)
        n == Len(PathStem(base))
    IN /\ PathSuffix(name) = PathSuffix(base)
       /\ Len(stem) >= n + 2
       /\ SubSeq(stem, 1, n) = PathStem(base)
       /\ stem[n + 1] = "_"
       /\ \E i \in 1..Len(Digits) : stem[Len(stem)] = Digits[i]

\* The world after create_new_project(path) and create_folder("Root",
\* "Sequences") on the project it returned.
WithSequences(path) ==
    LET c == create_new_project(World, ProjectName, path, "ok")
    IN [c.w EXCEPT !.h = create_folder_at_path(c.w.h, S_Root, S_Sequences).h]

\* The import of /s/a.fasta with copy=true into Root/Sequences after that.
FirstImport(path) ==
    import_file_to_project(WithSequences(path), F_source, P_Root_Sequences, TRUE, TRUE)

\* The import returned a reference stored under imported_files/ by its name,
\* and validate_project_references reports 1 valid, 0 missing, 0 errors.
ImportedAndValid(i) ==
    /\ i.exc = "none"
    /\ i.w.h.fileref[i.ret].relative_path
          = S_imported_files \o S_slash \o i.w.h.fileref[i.ret].name
    /\ validate_project_references(i.w).valid_count = 1
    /\ validate_project_references(i.w).missing_count = 0
    /\ validate_project_references(i.w).error_count = 0

\* The statement of C17 as written: in every state, after a
\* create_new_project that returns, create_folder_at_path("Root",
\* "Sequences") and the import of a.fasta with copy=true into Root/Sequences,
\* the reference is named a.fasta, is stored under imported_files/, and
\* validate_project_references reports 1 valid, 0 missing, 0 errors.
C17_ImportScenario ==
    \A path \in CreatePathInputs :
        create_new_project(World, ProjectName, path, "ok").exc = "none" =>
           /\ ImportedAndValid(FirstImport(path))
           /\ FirstImport(path).w.h.fileref[FirstImport(path).ret].name = S_a_fasta

\* C17: as above, the reference being named a.fasta when the directory of
\* the new project holds no file imported_files/a.fasta, and a.fasta with a
\* numeric suffix before the extension when it does.
C17_ImportScenarioInFreshArea ==
    \A path \in CreatePathInputs :
        create_new_project(World, ProjectName, path, "ok").exc = "none" =>
           /\ ImportedAndValid(FirstImport(path))
           /\ IF file_exists(WithSequences(path), S_imported_files \o S_slash \o S_a_fasta)
              THEN NumericSuffixed(FirstImport(path).w.h.fileref[FirstImport(path).ret].name,
                                   S_a_fasta)
              ELSE FirstImport(path).w.h.fileref[FirstImport(path).ret].name = S_a_fasta

\* The scenario has been run: the project at /d/p.oligoproj holds the folder
\* Sequences with the reference a.fasta, stored as imported_files/a.fasta, and
\* it is the one valid reference.
C17_Witness ==
    /\ Holding
    /\ project_root = D_d
    /\ is_file(disk, F_d_project)
    /\ is_file(disk, D_d \o S_slash \o S_imported_files \o S_slash \o S_a_fasta)
    /\ get_folder_by_path(Heap, P_Root_Sequences).exc = "none"
    /\ S_a_fasta \in DOMAIN folder[get_folder_by_path(Heap, P_Root_Sequences).ret].files
    /\ validate_project_references(World).valid_count = 1
    /\ validate_project_references(World).missing_count = 0
    /\ create_new_project(World, ProjectName, F_d_Project, "ok").exc = "none"

\* import_file_to_project(project, "/s/a.fasta", target, copy_file=True).
CopyImport(w, target) == import_file_to_project(w, F_source, target, TRUE, TRUE)

Name(i) == i.w.h.fileref[i.ret].name
StoredPath(i) == i.w.h.fileref[i.ret].relative_path

\* Three imports in a row return references with pairwise distinct names and
\* stored paths, the second and the third with a numeric suffix.
ThreeDistinctImports(w, target) ==
    /\ CopyImport(w, target).exc = "none"
    /\ CopyImport(CopyImport(w, target).w, target).exc = "none"
    /\ CopyImport(CopyImport(CopyImport(w, target).w, target).w, target).exc = "none"
    /\ \E n1 \in {Name(CopyImport(w, target))},
          n2 \in {Name(CopyImport(CopyImport(w, target).w, target))},
          n3 \in {Name(CopyImport(CopyImport(CopyImport(w, target).w, target).w, target))},
          p1 \in {StoredPath(CopyImport(w, target))},
          p2 \in {StoredPath(CopyImport(CopyImport(w, target).w, target))},
          p3 \in {StoredPath(CopyImport(CopyImport(CopyImport(w, target).w, target).w, target))} :
          /\ n1 # n2 /\ n1 # n3 /\ n2 # n3
          /\ p1 # p2 /\ p1 # p3 /\ p2 # p3
          /\ NumericSuffixed(n2, S_a_fasta)
          /\ NumericSuffixed(n3, S_a_fasta)

\* A project is open, the folder target exists and has no child a.fasta, and
\* the import area holds no file a.fasta.
NoSuchFileYet(target) ==
    /\ Holding
    /\ project_root # NoneStr
    /\ get_folder_by_path(Heap, target).exc = "none"
    /\ S_a_fasta \notin Children(Heap, get_folder_by_path(Heap, target).ret)
    /\ ~file_exists(World, S_imported_files \o S_slash \o S_a_fasta)

\* The statement of C18 as written: in every state where a folder has no
\* child a.fasta and the import area no file a.fasta, two and three imports
\* of a.fasta with copy=true into that folder all return, with pairwise
\* distinct names and stored paths and a numeric suffix from the second on.
C18_RepeatedImportsSucceed ==
    \A target \in TargetInputs :
        NoSuchFileYet(target) => ThreeDistinctImports(World, target)

\* C18: the same, for a folder that moreover has no child named a.fasta with
\* a numeric suffix.
C18_RepeatedImportsIntoFreeNames ==
    \A target \in TargetInputs :
        /\ NoSuchFileYet(target)
        /\ \A n \in Children(Heap, get_folder_by_path(Heap, target).ret) :
              ~NumericSuffixed(n, S_a_fasta)
        => ThreeDistinctImports(World, target)

\* The folder Sequences of an open project is empty and the import area
\* holds no a.fasta: three imports return a.fasta, a_1.fasta and a_1_2.fasta.
C18_Witness ==
    /\ NoSuchFileYet(P_Root_Sequences)
    /\ Children(Heap, get_folder_by_path(Heap, P_Root_Sequences).ret) = {}
    /\ ThreeDistinctImports(World, P_Root_Sequences)
    /\ Name(CopyImport(World, P_Root_Sequences)) = S_a_fasta
    /\ Name(CopyImport(CopyImport(World, P_Root_Sequences).w, P_Root_Sequences)) = S_a_1_fasta
    /\ Name(CopyImport(CopyImport(CopyImport(World, P_Root_Sequences).w, P_Root_Sequences).w, P_Root_Sequences)) = S_a_1_2_fasta

\* C19: in every state where the caller holds a project,
\* import_file_to_project raises FileNotFoundError for a source path that
\* does not exist or is no regular file, whatever the folder and the copy
\* flag, and leaves the project tree, the disk and the binding as they were.
C19_MissingSourceChangesNothing ==
    Holding =>
        \A source \in SourceInputs, target \in TargetInputs,
           copy \in BOOLEAN, copy_ok \in BOOLEAN :
            ~exists(disk, source) \/ ~is_file(disk, source) =>
               /\ import_file_to_project(World, source, target, copy, copy_ok).exc
                     = "FileNotFoundError"
               /\ import_file_to_project(World, source, target, copy, copy_ok).w
                     = World

\* A project with a reference in the folder Sequences is open, and an import
\* of the missing /s/b and one of the directory /s are both refused.
C19_Witness ==
    /\ Holding
    /\ project_root # NoneStr
    /\ get_folder_by_path(Heap, P_Root_Sequences).exc = "none"
    /\ fileref # <<>>
    /\ ~exists(disk, F_absent)
    /\ is_dir(disk, D_s)
    /\ import_file_to_project(World, F_absent, P_Root_Sequences, TRUE, TRUE).exc
          = "FileNotFoundError"
    /\ import_file_to_project(World, D_s, P_Root_Sequences, FALSE, TRUE).exc
          = "FileNotFoundError"

\* The name import_file_to_project gives the reference of /s/a.fasta: the
\* source's name, or with copy=true the first of a.fasta, a_1.fasta,
\* a_1_2.fasta that no file in the import area bears (the empty name stands
\* for a later one).
ImportedName(w, copy) ==
    IF ~copy THEN S_a_fasta
    ELSE IF ~file_exists(w, S_imported_files \o S_slash \o S_a_fasta) THEN S_a_fasta
    ELSE IF ~file_exists(w, S_imported_files \o S_slash \o S_a_1_fasta) THEN S_a_1_fasta
    ELSE IF ~file_exists(w, S_imported_files \o S_slash \o S_a_1_2_fasta) THEN S_a_1_2_fasta
    ELSE <<>>

\* The import of /s/a.fasta into the folder target of the world w raises
\* DuplicateNameError and leaves the children of the folder as they are in w.
RefusedAsDuplicate(w, target, copy) ==
    /\ import_file_to_project(w, F_source, target, copy, TRUE).exc
          = "DuplicateNameError"
    /\ \E f \in {get_folder_by_path(w.h, target).ret} :
          /\ import_file_to_project(w, F_source, target, copy, TRUE).w.h.folder[f].files
                = w.h.folder[f].files
          /\ import_file_to_project(w, F_source, target, copy, TRUE).w.h.folder[f].subfolders
                = w.h.folder[f].subfolders

\* The world where the folder target has got a subfolder named a.fasta.
WithFolderNamedLikeFile(target) ==
    [World EXCEPT !.h = create_folder_at_path(Heap, target, S_a_fasta).h]

\* C20: in every state where a project is open, an import into a folder
\* that has a file or a subfolder of the name the reference would get, a name
\* no file in the import area bears, raises DuplicateNameError and leaves the
\* children of the folder unchanged.
C20_LogicalCollisionRefused ==
    Holding /\ project_root # NoneStr =>
        \A target \in TargetInputs, copy \in BOOLEAN :
            get_folder_by_path(Heap, target).exc = "none" =>
               /\ ImportedName(World, copy)
                     \in Children(Heap, get_folder_by_path(Heap, target).ret)
                  => RefusedAsDuplicate(World, target, copy)
               /\ /\ create_folder_at_path(Heap, target, S_a_fasta).exc = "none"
                  /\ ImportedName(World, copy) = S_a_fasta
                  => RefusedAsDuplicate(WithFolderNamedLikeFile(target), target, copy)

\* The folder Sequences has a reference a_1.fasta that was not imported, the
\* import area holds a.fasta but no a_1.fasta, and the import with copy=true
\* is refused; so is one into the root folder once it has a subfolder a.fasta.
C20_Witness ==
    /\ Holding
    /\ project_root # NoneStr
    /\ get_folder_by_path(Heap, P_Root_Sequences).exc = "none"
    /\ file_exists(World, S_imported_files \o S_slash \o S_a_fasta)
    /\ ~file_exists(World, S_imported_files \o S_slash \o S_a_1_fasta)
    /\ S_a_1_fasta \in Children(Heap, get_folder_by_path(Heap, P_Root_Sequences).ret)
    /\ RefusedAsDuplicate(World, P_Root_Sequences, TRUE)
    /\ create_folder_at_path(Heap, S_Root, S_a_fasta).exc = "none"
    /\ RefusedAsDuplicate(WithFolderNamedLikeFile(S_Root), S_Root, FALSE)

\* The call r left the world w as it was, and the call made right after it
\* returns what r returned.
PureRead(w, r) ==
    /\ r.exc = "none"
    /\ r.w.h = w.h
    /\ r.w.path = w.path
    /\ r.w.disk = w.disk
    /\ r.w.root = w.root
    /\ r.w.current = w.current
    /\ validate_project_references_call(r.w).exc = "none"
    /\ validate_project_references_call(r.w).ret = r.ret

RECURSIVE Occurrences(_, _)
Occurrences(list, x) ==
    IF list = <<>> THEN 0
    ELSE (IF Head(list) = x THEN 1 ELSE 0) + Occurrences(Tail(list), x)

\* The worlds that differ from w in one respect: the stored path of one
\* reference is empty, or absolute and outside the project root (of a file
\* that is there, of one that is not), one file is gone from the disk, one
\* directory is closed to searches, or the resolver is released.
Disturbed(w) ==
    {w, [w EXCEPT !.root = NoneStr]}
    \cup {[w EXCEPT !.h.fileref[r].relative_path = p] :
             r \in DOMAIN w.h.fileref, p \in {S_empty, F_source, F_absent}}
    \cup {[w EXCEPT !.disk = [x \in DOMAIN w.disk \ {p} |-> w.disk[x]]] :
             p \in {q \in DOMAIN w.disk : is_file(w.disk, q)}}
    \cup {[w EXCEPT !.disk = Put(w.disk, p, Unsearchable)] :
             p \in {q \in DOMAIN w.disk : is_dir(w.disk, q)}}

\* The result v of validating the world w reports every reference of the
\* tree in exactly one of its lists, and its counts and all_valid agree with
\* the lists.
Classified(w, v) ==
    /\ v.total_files = Cardinality(TreeFiles(w.h))
    /\ v.valid_count = Len(v.valid)
    /\ v.missing_count = Len(v.missing)
    /\ v.error_count = Len(v.errors)
    /\ v.valid_count + v.missing_count + v.error_count = v.total_files
    /\ v.all_valid = (v.missing_count = 0 /\ v.error_count = 0)
    /\ \A r \in TreeFiles(w.h) :
          Occurrences(v.valid, w.h.fileref[r].name)
             + Occurrences(v.missing, w.h.fileref[r].name)
             + Occurrences(v.errors, error_entry(w.h.fileref[r].name))
          = Cardinality({x \in TreeFiles(w.h) : w.h.fileref[x].name = w.h.fileref[r].name})

\* C22: for every tree and every disk (a file missing, a stored path empty,
\* a stored path absolute and outside the project root, a directory that
\* cannot be searched, no project root), validate_project_references returns;
\* each reference of the tree is in exactly one of valid, missing and errors,
\* valid_count + missing_count + error_count = total_files, and all_valid
\* holds exactly when missing_count and error_count are 0.
C22_ValidateClassifiesEveryReference ==
    Holding =>
        \A w \in Disturbed(World) :
            /\ validate_project_references_call(w).exc = "none"
            /\ Classified(w, validate_project_references_call(w).ret)

\* The project holds a reference stored by an absolute path outside the
\* project root, which is valid, and one whose file is missing; with the
\* first one's stored path emptied, validation returns with both missing, and
\* with the directory /s closed to searches it returns with one error.
C22_Witness ==
    /\ Holding
    /\ project_root = D_d
    /\ \E r \in DOMAIN fileref : fileref[r].relative_path = F_source
    /\ validate_project_references_call(World).ret.valid_count = 1
    /\ validate_project_references_call(World).ret.missing_count = 1
    /\ ~validate_project_references_call(World).ret.all_valid
    /\ \E r \in DOMAIN fileref :
          validate_project_references_call(
              [World EXCEPT !.h.fileref[r].relative_path = S_empty]).ret.missing_count = 2
    /\ validate_project_references_call(
           [World EXCEPT !.disk = Put(disk, D_s, Unsearchable)]).ret.error_count = 1

---------------------------------------------------------------------------
(* Properties of the tree of a project on disk.                            *)

F_imported_a_fasta == D_d \o S_slash \o S_imported_files \o S_slash \o S_a_fasta

\* C23: no call that mutates the tree (create_folder_at_path,
\* add_file_to_path, move_item, copy_file, rename_subfolder, rename_file,
\* remove_file, remove_subfolder, DeleteItemUseCase.execute) changes the disk:
\* the same paths hold the same contents after the call as before it.
C23_TreeMutationsLeaveDisk == [][disk' = disk]_vars

\* The reference to the imported copy has been removed from the tree, which
\* holds no reference any more, and the copy is on disk with the project
\* file and the source.
C23_Witness ==
    /\ calls > 0
    /\ TreeFiles(Heap) = {}
    /\ is_file(disk, F_imported_a_fasta)
    /\ is_file(disk, F_d_project)
    /\ is_file(disk, F_source)
    /\ disk = ImportedProject.disk

---------------------------------------------------------------------------
(* Properties of the repository's life cycle.                              *)

\* file_manager.resolve_relative_path on a non-empty path returns.
Resolves == resolve_relative_path(project_root, S_rel).exc = "none"

\* The step is the call r, which returned.
StepOf(r) ==
    /\ r.exc = "none"
    /\ project_root' = r.w.root
    /\ current_project_path' = r.w.current
    /\ disk' = r.w.disk

\* The step is a create_new_project or a load_project call that returned.
OpenedByCall ==
    \/ \E name \in ProjectNameInputs, path \in CreatePathInputs,
          io \in {"ok", "write_fails"} :
          StepOf(create_new_project(World, name, path, io))
    \/ \E path \in LoadPathInputs : StepOf(load_project_at(World, path))

\* C24: resolve_relative_path on a non-empty path succeeds only while the
\* repository is open: it raises PathResolutionError before the first call,
\* it comes to succeed only by a create_new_project or load_project call
\* that returned, it raises PathResolutionError after close_project, and
\* close_project changes no file on disk.
C24_ResolvesOnlyWhileOpen ==
    /\ ~Resolves
    /\ [][/\ (Resolves' /\ ~Resolves) => OpenedByCall
          /\ resolve_relative_path(close_project(World).root, S_rel).exc
                = "PathResolutionError"
          /\ close_project(World).disk = disk]_vars

---------------------------------------------------------------------------
(* Properties of the project directory.                                    *)

\* The directories from p upward, p first, the root directory left out.
RECURSIVE Upward(_)
Upward(p) == IF p = S_slash THEN <<>> ELSE <<p>> \o Upward(PathParent(p))

\* The paths the call r found on the disk d and removed.
Removed(d, r) == DOMAIN d \ DOMAIN r.w.disk

\* The call r, cleanup_empty_directories from the directory start with rmdir
\* refused for the directories in locked, on the disk d of a project whose
\* root directory is root: what it removed are the first directories from
\* start upward, each one a directory with nothing left in it, the next one
\* is the project root, or has an entry, or is refused; nothing else on the
\* disk has changed, and it returned the directories removed, in that order.
CleanupContract(d, root, start, locked, r) ==
    /\ r.exc = "none"
    /\ root \in DOMAIN r.w.disk
    /\ \A p \in DOMAIN r.w.disk : p \in DOMAIN d /\ r.w.disk[p] = d[p]
    /\ Len(r.ret) = Cardinality(Removed(d, r))
    /\ Len(r.ret) <= Len(Upward(start))
    /\ \A i \in 1..Len(r.ret) :
          /\ Upward(start)[i] \in Removed(d, r)
          /\ is_dir(d, Upward(start)[i])
          /\ Upward(start)[i] \notin locked
          /\ \A q \in DOMAIN d : PathParent(q) = Upward(start)[i] => q \in Removed(d, r)
          /\ resolve_relative_path(r.w.root, r.ret[i]).ret = Upward(start)[i]
    /\ Len(r.ret) < Len(Upward(start)) =>
          \/ Upward(start)[Len(r.ret) + 1] = root
          \/ Upward(start)[Len(r.ret) + 1] \in locked
          \/ any_iterdir(r.w.disk, Upward(start)[Len(r.ret) + 1])

\* C25: cleanup_empty_directories(start), for a start directory below the
\* project root, removes only directories on the path from start upward that
\* are empty when it removes them, stops at the first one that is not empty
\* or that it cannot remove, never removes the project root directory, and
\* returns the directories it removed, in the order it removed them.
C25_CleanupStopsBelowRoot ==
    \A relative_path \in DirectoryInputs, locked \in SUBSET {D_d \o S_slash \o S_x} :
        is_dir(disk, resolve_relative_path(project_root, relative_path).ret) =>
            CleanupContract(disk, resolve(project_root),
                            resolve_relative_path(project_root, relative_path).ret,
                            locked,
                            cleanup_empty_directories(World, relative_path, locked))

\* The call r, made in the world w, failed and left in w's tree the folder
\* c under its parent f by the name n, with c's children as they were.
RefusedAndKept(w, f, n, c, r) ==
    /\ r.exc # "none"
    /\ n \in DOMAIN r.w.h.folder[f].subfolders
    /\ r.w.h.folder[f].subfolders[n] = c
    /\ r.w.h.folder = w.h.folder
    /\ r.w.h.fileref = w.h.fileref

\* C26: DeleteItemUseCase.execute with item_type 'folder' on a subfolder that
\* holds a file or a subfolder fails, and the subfolder stays under the same
\* parent with all it holds.
C26_NonEmptyFolderNotDeleted ==
    \A p \in TreePathInputs, n \in TreeNameInputs :
        (/\ get_folder_by_path(Heap, p).exc = "none"
         /\ n \in DOMAIN folder[get_folder_by_path(Heap, p).ret].subfolders
         /\ ~is_empty(Heap, folder[get_folder_by_path(Heap, p).ret].subfolders[n]))
        => RefusedAndKept(World, get_folder_by_path(Heap, p).ret, n,
                          folder[get_folder_by_path(Heap, p).ret].subfolders[n],
                          DeleteItemUseCase_execute(World, p, n, "folder"))

\* Root holds the folder Sequences, which holds a folder that holds a file;
\* deleting Sequences is refused, and so is deleting the folder in it.
C26_Witness ==
    /\ calls > 0
    /\ S_Sequences \in DOMAIN folder[RootId].subfolders
    /\ \E n \in TreeNameInputs :
          /\ n \in DOMAIN folder[folder[RootId].subfolders[S_Sequences]].subfolders
          /\ folder[folder[folder[RootId].subfolders[S_Sequences]].subfolders[n]].files # EmptyDict
          /\ DeleteItemUseCase_execute(World, P_Root_Sequences, n, "folder").exc = "UseCaseError"
    /\ DeleteItemUseCase_execute(World, S_Root, S_Sequences, "folder").exc = "UseCaseError"
    /\ DeleteItemUseCase_execute(World, S_Root, S_Sequences, "folder").w = World

---------------------------------------------------------------------------
(* Properties of the use cases on the repository.                          *)

\* The use case's run r ended as the repository's import i did and left
\* what it left, but for the file type of the new reference, which is the
\* detector's when its confidence is above 0.7 and the import's otherwise.
SameButFileType(i, r, content_based) ==
    /\ (r.exc = "none") = (i.exc = "none")
    /\ r.w.disk = i.w.disk
    /\ r.w.root = i.w.root
    /\ r.w.current = i.w.current
    /\ r.w.path = i.w.path
    /\ r.w.h.folder = i.w.h.folder
    /\ r.w.h.last_modified = i.w.h.last_modified
    /\ r.ret = i.ret
    /\ IF i.exc # "none" THEN r.w.h.fileref = i.w.h.fileref
       ELSE /\ [r.w.h.fileref EXCEPT ![r.ret].file_type = S_empty]
                 = [i.w.h.fileref EXCEPT ![i.ret].file_type = S_empty]
            /\ r.w.h.fileref[r.ret].file_type
                 = IF content_based.confidence > 70 THEN content_based.format
                   ELSE i.w.h.fileref[i.ret].file_type

\* Whatever the detector returned, the use case's run that made the import i
\* ended as i did, with the detector's label where it was sure.
AnyDetection(i) ==
    \A content_based \in DetectedFormats :
        SameButFileType(i, file_imported(i, TRUE, content_based), content_based)

\* C27: what the format detector returns never decides whether an import
\* succeeds: for every state and every import, the runs of
\* ImportFileUseCase.execute with any two results of the detector both
\* succeed or both fail and leave the same tree and the same disk, but for
\* the file type of the new reference, which is the detector's label exactly
\* when its confidence is above 0.7.
C27_DetectorNeverGatesImport ==
    Holding =>
        \A source \in SourceInputs, target \in TargetInputs, copy \in BOOLEAN :
            AnyDetection(import_file_to_project(World, source, target, copy, TRUE))

\* The project holds the folder Sequences: importing /s/a.fasta into it
\* succeeds whether the detector failed to read the file or is sure of a CSV
\* file, with the label csv in the second run only, and importing the missing
\* /s/b fails in both runs.
C27_Witness ==
    /\ Holding
    /\ get_folder_by_path(Heap, P_Root_Sequences).exc = "none"
    /\ ImportFileUseCase_execute(World, F_source, P_Root_Sequences, TRUE, TRUE, TRUE,
                                 [format |-> S_unknown, confidence |-> 0]).exc = "none"
    /\ ImportFileUseCase_execute(World, F_source, P_Root_Sequences, TRUE, TRUE, TRUE,
                                 [format |-> S_csv, confidence |-> 100]).exc = "none"
    /\ \E r \in {ImportFileUseCase_execute(World, F_source, P_Root_Sequences, TRUE, TRUE, TRUE,
                                           [format |-> S_csv, confidence |-> 100])} :
          r.w.h.fileref[r.ret].file_type = S_csv
    /\ \E r \in {ImportFileUseCase_execute(World, F_source, P_Root_Sequences, TRUE, TRUE, TRUE,
                                           [format |-> S_unknown, confidence |-> 0])} :
          r.w.h.fileref[r.ret].file_type # S_unknown
    /\ ImportFileUseCase_execute(World, F_absent, P_Root_Sequences, TRUE, TRUE, TRUE,
                                 [format |-> S_unknown, confidence |-> 0]).exc = "UseCaseError"
    /\ ImportFileUseCase_execute(World, F_absent, P_Root_Sequences, TRUE, TRUE, TRUE,
                                 [format |-> S_csv, confidence |-> 100]).exc = "UseCaseError"

---------------------------------------------------------------------------
(* Properties of references to files that are not copied.                  *)

LinkSourceInputs == {F_source, F_imported_a_fasta}

\* p relative to the directory dir above it, with forward slashes.
RelativeTo(p, dir) == replace(SubSeq(p, Len(dir) + 2, Len(p)), os_sep, "/")

\* The import i of the file source with copy_file=False, made in the world
\* w, wrote nothing and stored the path of source relative to the project
\* root when source is beneath it and the canonical path of source
\* otherwise; the stored path resolves to source, which validation finds.
LinkedTo(w, source, i) ==
    /\ i.w.disk = w.disk
    /\ i.w.h.fileref[i.ret].relative_path
          = IF IsUnder(source, resolve(w.root)) THEN RelativeTo(source, resolve(w.root))
            ELSE source
    /\ resolve_relative_path(i.w.root, i.w.h.fileref[i.ret].relative_path).ret = source
    /\ file_exists(i.w, i.w.h.fileref[i.ret].relative_path)
    /\ Occurrences(validate_project_references_call(i.w).ret.valid, i.w.h.fileref[i.ret].name) >= 1
    /\ validate_project_references_call(i.w).ret.error_count = 0

\* C28: an import_file_to_project with copy=false that returns has written
\* nothing to disk and stored a path that resolves back to the source file:
\* the root-relative path with forward slashes for a source under the
\* project root, the canonical absolute path for a source outside it; and
\* validate_project_references finds the new reference valid while the
\* source file exists.
C28_LinkStoresResolvablePath ==
    Holding =>
        \A source \in LinkSourceInputs, target \in TargetInputs :
            (/\ is_file(disk, source)
             /\ import_file_to_project(World, source, target, FALSE, TRUE).exc = "none")
            => LinkedTo(World, source,
                        import_file_to_project(World, source, target, FALSE, TRUE))

---------------------------------------------------------------------------
(* Properties of calls that raise.                                         *)

\* The heap h holds the tree of the state, object for object, and the
\* project's last_modified.
Untouched(h) ==
    /\ h.folder = folder
    /\ h.fileref = fileref
    /\ h.last_modified = last_modified
    /\ h.assignments = 0

\* C29: a move_item call that raises (the source or the destination folder
\* is not found, the item is not in the source folder, or the destination
\* folder holds a child with the item's name) leaves the tree as it was: the
\* item is still a child of its source folder.
C29_FailedMoveChangesNothing ==
    \A sp \in PathInputs, n \in Names, dp \in PathInputs :
        move_item(Heap, sp, n, dp).exc # "none" => Untouched(move_item(Heap, sp, n, dp).h)

\* The call r raised the exception exc and left the tree and last_modified
\* as they were.
RaisedAndLeft(r, exc) == r.exc = exc /\ Untouched(Collect(r.h))

\* C30: a create_folder_at_path, add_file_to_path or copy_file call that
\* raises (ItemNotFoundError for a folder path or a source file that is not
\* found, DuplicateNameError for a name that is taken, FolderError for an
\* invalid folder name) leaves the tree and Project.last_modified unchanged.
C30_FailedCallChangesNothing ==
    /\ \A p \in PathInputs, n \in FolderNameInputs :
          create_folder_at_path(Heap, p, n).exc # "none" =>
             Untouched(Collect(create_folder_at_path(Heap, p, n).h))
    /\ \A p \in PathInputs, n \in FileNameInputs :
          \A c \in {NewFileReference(Heap, n, S_src, S_rel, S_empty, 5, EmptyDict)} :
             (c.exc = "none" /\ add_file_to_path(c.h, p, c.ret).exc # "none") =>
                Untouched(Collect(add_file_to_path(c.h, p, c.ret).h))
    /\ \A sp \in PathInputs, n \in FileLookupInputs, dp \in PathInputs, nn \in NewNameInputs :
          copy_file(Heap, sp, n, dp, nn).exc # "none" =>
             Untouched(Collect(copy_file(Heap, sp, n, dp, nn).h))

\* A tree in which create_folder_at_path raises each of ItemNotFoundError,
\* DuplicateNameError and FolderError, add_file_to_path raises
\* ItemNotFoundError and DuplicateNameError, and copy_file raises
\* ItemNotFoundError and DuplicateNameError, each leaving the tree as it was.
C30_Witness ==
    /\ \E p \in PathInputs, n \in FolderNameInputs :
          RaisedAndLeft(create_folder_at_path(Heap, p, n), "ItemNotFoundError")
    /\ \E p \in PathInputs, n \in FolderNameInputs :
          RaisedAndLeft(create_folder_at_path(Heap, p, n), "DuplicateNameError")
    /\ \E p \in PathInputs, n \in FolderNameInputs :
          RaisedAndLeft(create_folder_at_path(Heap, p, n), "FolderError")
    /\ \E p \in PathInputs, n \in FileNameInputs, x \in {"ItemNotFoundError"} :
          \E c \in {NewFileReference(Heap, n, S_src, S_rel, S_empty, 5, EmptyDict)} :
             c.exc = "none" /\ RaisedAndLeft(add_file_to_path(c.h, p, c.ret), x)
    /\ \E p \in PathInputs, n \in FileNameInputs, x \in {"DuplicateNameError"} :
          \E c \in {NewFileReference(Heap, n, S_src, S_rel, S_empty, 5, EmptyDict)} :
             c.exc = "none" /\ RaisedAndLeft(add_file_to_path(c.h, p, c.ret), x)
    /\ \E sp \in PathInputs, n \in FileLookupInputs, dp \in PathInputs, nn \in NewNameInputs :
          RaisedAndLeft(copy_file(Heap, sp, n, dp, nn), "ItemNotFoundError")
    /\ \E sp \in PathInputs, n \in FileLookupInputs, dp \in PathInputs, nn \in NewNameInputs :
          RaisedAndLeft(copy_file(Heap, sp, n, dp, nn), "DuplicateNameError")


---------------------------------------------------------------------------
(* Imports that raise, and what they leave on disk.                        *)

\* The regular files of the disk d with their contents.
RegularFiles(d) == [p \in {q \in DOMAIN d : is_file(d, q)} |-> d[p]]

\* C31: an import_file_to_project call with copy=true that raises leaves the
\* regular files on disk as they were: no copy of the source file is left
\* behind in imported_files without a FileReference in the tree.  The copy
\* itself is taken to succeed; the call raises where it adds the reference.
C31_FailedImportLeavesNoCopy ==
    Holding =>
       \A source \in SourceInputs, target \in TargetInputs :
          import_file_to_project(World, source, target, TRUE, TRUE).exc # "none" =>
             RegularFiles(import_file_to_project(World, source, target, TRUE, TRUE).w.disk)
                = RegularFiles(disk)


\* Every regular file of the disk d is on the disk e with the content it had.
Preserved(d, e) ==
    \A p \in DOMAIN d : is_file(d, p) => p \in DOMAIN e /\ e[p] = d[p]

\* C32: import_file_to_project with copy=true, whether it returns or raises
\* and whether the copy succeeds or fails, leaves every regular file that was
\* on disk before the call in place with its content: the storage path it
\* copies to denoted no existing file.
C32_ImportNeverOverwrites ==
    Holding =>
       \A source \in SourceInputs, target \in TargetInputs, copy_ok \in BOOLEAN :
          Preserved(disk, import_file_to_project(World, source, target, TRUE, copy_ok).w.disk)

\* A project whose imported_files holds a copy of a.fasta, into which a.fasta
\* is imported again: the call returns, the second copy is stored as
\* a_1.fasta and the first copy is as it was.
C32_Witness ==
    /\ Holding
    /\ file_exists(World, S_imported_files \o S_slash \o PathName(F_source))
    /\ \E target \in TargetInputs :
          \E r \in {import_file_to_project(World, F_source, target, TRUE, TRUE)} :
             /\ r.exc = "none"
             /\ DOMAIN r.w.disk # DOMAIN disk
             /\ Preserved(disk, r.w.disk)
             /\ r.w.h.fileref[r.ret].name = S_a_1_fasta


---------------------------------------------------------------------------
(* Documents edited by hand, loaded.                                       *)

\* The folder invariants in the tree of the heap h: in each folder no name
\* is a key of both maps, and every child is stored under its own name.
FolderInvariants(h) ==
    \A f \in TreeFolders(h) :
        /\ (DOMAIN h.folder[f].subfolders) \cap (DOMAIN h.folder[f].files) = {}
        /\ \A n \in DOMAIN h.folder[f].subfolders :
              h.folder[h.folder[f].subfolders[n]].name = n
        /\ \A n \in DOMAIN h.folder[f].files :
              h.fileref[h.folder[f].files[n]].name = n

\* The document data with the root's subfolder stored under the key k moved
\* to the key n, its own name field left alone.
Rekeyed(data, k, n) ==
    [data EXCEPT !.folder_structure.subfolders = Put(Del(@, k), n, @[k])]

\* The document data with the root's file stored under the key k stored
\* under the name n of a subfolder of the root as well, its name field n.
Shadowed(data, k, n) ==
    [data EXCEPT !.folder_structure.files = Put(@, n, [@[k] EXCEPT !.name = n])]

\* The documents an editor makes of the saved document of the project held:
\* the document itself, and the document with one key of the root changed.
EditedDocuments ==
    LET data == Project_to_dict(Heap, project_file_path)
        root == data.folder_structure
    IN {data}
       \cup {Rekeyed(data, k, n) : k \in DOMAIN root.subfolders,
                                   n \in ValidFolderNames \ DOMAIN root.subfolders}
       \cup {Shadowed(data, k, n) : k \in DOMAIN root.files,
                                    n \in DOMAIN root.subfolders}

\* C33: the tree a successful load_project returns satisfies the folder
\* invariants, whatever the document contained: in each folder no name is
\* both a subfolder and a file, and every child is stored under a key equal
\* to its own name field.
C33_LoadedTreeIsConsistent ==
    \A data \in EditedDocuments :
        json_dumps(data).exc = "none" =>
           \A r \in {load_project(Complete(json_dumps(data).text))} :
              r.exc = "none" => FolderInvariants(r.h)


\* C34: in every state, for every load path, load_project returns a project
\* or raises one of ProjectFileError, JsonSerializationError and
\* CorruptedProjectError, whatever the file at the path holds.
C34_LoadRaisesOnlyItsThreeClasses ==
    \A path \in LoadPathInputs :
        load_project_at(World, path).exc \in
            {"none", "ProjectFileError", "JsonSerializationError", "CorruptedProjectError"}


\* The call that ended as r left the repository's binding as it is now.
BindingKept(r) == r.w.root = project_root /\ r.w.current = current_project_path

\* C35: in every state, a create_new_project or load_project call that
\* raises leaves the resolver's project root and the repository's current
\* project path as they were before the call, also when what fails is the
\* save that create_new_project performs.
C35_FailedOpenKeepsBinding ==
    /\ \A name \in ProjectNameInputs, path \in CreatePathInputs,
          io \in {"ok", "write_fails"} :
          create_new_project(World, name, path, io).exc # "none" =>
             BindingKept(create_new_project(World, name, path, io))
    /\ \A path \in LoadPathInputs :
          load_project_at(World, path).exc # "none" =>
             BindingKept(load_project_at(World, path))


---------------------------------------------------------------------------
(* Parent links.                                                           *)

\* The folders of the heap h that hold the folder c as a subfolder.
Owners(h, c) ==
    {f \in DOMAIN h.folder :
        \E n \in DOMAIN h.folder[f].subfolders : h.folder[f].subfolders[n] = c}

\* In the heap h every folder a folder holds has that folder's identifier as
\* its parent_id, and every folder no folder holds has parent_id None.
ParentLinks(h) ==
    \A c \in DOMAIN h.folder :
        /\ \A f \in Owners(h, c) : h.folder[c].parent_id = f
        /\ Owners(h, c) = {} => h.folder[c].parent_id = NoId

---------------------------------------------------------------------------
(* ApplicationService.  The service holds the repository and the current   *)
(* project; every method builds a request, hands it to its use case's      *)
(* execute_safely and looks at the result's success.  execute_safely runs   *)
(* validate_request and execute and turns every exception into a failure   *)
(* result: here it leaves a world with exc "none" exactly when the result's *)
(* success is True.                                                        *)

\* `not x or not x.strip()` for a str x.
Blank(x) == x = <<>> \/ strip(x) = <<>>

\* execute of a use case around the repository call r: `except Exception`
\* raises UseCaseError.
executed(r) == IF r.exc = "none" THEN r ELSE Raises(r.w, "UseCaseError")

\* execute of a use case around the Project call r on the project of w.
project_call(w, r) ==
    IF r.exc = "none" THEN Returns([w EXCEPT !.h = r.h], r.ret)
    ELSE Raises([w EXCEPT !.h = r.h], "UseCaseError")

\* CreateNewProjectUseCase: validate_request, then execute.
CreateNewProjectUseCase_execute_safely(w, project_name, file_path, io) ==
    IF \/ Blank(project_name)
       \/ Blank(file_path)
       \/ HasInvalidChar(project_name)
       \/ exists(w.disk, file_path) /\ is_file(w.disk, file_path)
    THEN Raises(w, "ValidationError")
    ELSE executed(create_new_project(w, project_name, file_path, io))

\* LoadProjectUseCase: validate_request, then execute, whose
\* validate_project_references changes nothing.
LoadProjectUseCase_execute_safely(w, file_path) ==
    IF \/ Blank(file_path)
       \/ ~exists(w.disk, file_path)
       \/ ~is_file(w.disk, file_path)
    THEN Raises(w, "ValidationError")
    ELSE executed(load_project_at(w, file_path))

\* SaveProjectUseCase: validate_request, then execute.
SaveProjectUseCase_execute_safely(w, create_backup, io) ==
    IF w.path = NoneStr \/ w.path = <<>> THEN Raises(w, "ValidationError")
    ELSE executed(save_project(w, create_backup, io))

\* ImportFileUseCase: validate_request, then execute.
ImportFileUseCase_execute_safely(w, source_file_path, target_folder_path, copy, copy_ok, auto_detect_format, content_based) ==
    IF \/ Blank(source_file_path)
       \/ target_folder_path = <<>>
       \/ ~exists(w.disk, source_file_path)
       \/ ~is_file(w.disk, source_file_path)
       \/ get_folder_by_path(w.h, target_folder_path).exc # "none"
    THEN Raises(w, "ValidationError")
    ELSE ImportFileUseCase_execute(w, source_file_path, target_folder_path, copy,
                                   copy_ok, auto_detect_format, content_based)

\* CreateFolderUseCase: validate_request, then execute.
CreateFolderUseCase_execute_safely(w, parent_folder_path, folder_name) ==
    IF \/ Blank(folder_name)
       \/ parent_folder_path = <<>>
       \/ HasInvalidChar(folder_name)
       \/ get_folder_by_path(w.h, parent_folder_path).exc # "none"
    THEN Raises(w, "ValidationError")
    ELSE IF folder_name \in get_path_items(w.h, get_folder_by_path(w.h, parent_folder_path).ret)
    THEN Raises(w, "ValidationError")
    ELSE project_call(w, create_folder_at_path(w.h, parent_folder_path, folder_name))

\* MoveItemUseCase: validate_request, then execute.
MoveItemUseCase_execute_safely(w, source_folder_path, item_name, destination_folder_path) ==
    IF \/ Blank(item_name)
       \/ source_folder_path = <<>>
       \/ destination_folder_path = <<>>
       \/ source_folder_path = destination_folder_path
       \/ get_folder_by_path(w.h, source_folder_path).exc # "none"
       \/ get_folder_by_path(w.h, destination_folder_path).exc # "none"
    THEN Raises(w, "ValidationError")
    ELSE IF \/ item_name \notin get_path_items(w.h, get_folder_by_path(w.h, source_folder_path).ret)
            \/ item_name \in get_path_items(w.h, get_folder_by_path(w.h, destination_folder_path).ret)
    THEN Raises(w, "ValidationError")
    ELSE project_call(w, move_item(w.h, source_folder_path, item_name,
                                   destination_folder_path))

\* CopyFileUseCase: validate_request, then execute.
CopyFileUseCase_execute_safely(w, source_folder_path, file_name, destination_folder_path, new_name) ==
    IF \/ Blank(file_name)
       \/ source_folder_path = <<>>
       \/ destination_folder_path = <<>>
       \/ get_folder_by_path(w.h, source_folder_path).exc # "none"
       \/ get_folder_by_path(w.h, destination_folder_path).exc # "none"
    THEN Raises(w, "ValidationError")
    ELSE IF \/ file_name \notin DOMAIN w.h.folder[get_folder_by_path(w.h, source_folder_path).ret].files
            \/ (IF new_name = NoneStr \/ new_name = <<>> THEN file_name ELSE new_name)
                  \in get_path_items(w.h, get_folder_by_path(w.h, destination_folder_path).ret)
    THEN Raises(w, "ValidationError")
    ELSE project_call(w, copy_file(w.h, source_folder_path, file_name,
                                   destination_folder_path, new_name))

\* DeleteItemUseCase: validate_request, then execute.
DeleteItemUseCase_execute_safely(w, folder_path, item_name, item_type) ==
    IF \/ Blank(item_name)
       \/ folder_path = <<>>
       \/ item_type \notin {"file", "folder"}
       \/ get_folder_by_path(w.h, folder_path).exc # "none"
    THEN Raises(w, "ValidationError")
    ELSE IF \/ item_type = "file"
               /\ item_name \notin DOMAIN w.h.folder[get_folder_by_path(w.h, folder_path).ret].files
            \/ item_type = "folder"
               /\ item_name \notin DOMAIN w.h.folder[get_folder_by_path(w.h, folder_path).ret].subfolders
    THEN Raises(w, "ValidationError")
    ELSE DeleteItemUseCase_execute(w, folder_path, item_name, item_type)


\* The service: the world its repository and project live in, and its fields.
Service ==
    [w |-> World, current_project |-> current_project,
     project_modified |-> project_modified]

\* A method leaves the service s and returns a UseCaseResult with this success.
Result(s, success) == [s |-> s, success |-> success]

has_unsaved_changes(s) == s.project_modified

\* The end of create_new_project and load_project: r is what execute_safely
\* left, project the Project object in its response.
project_opened(s, project, r) ==
    IF r.exc = "none"
    THEN Result([s EXCEPT !.w = r.w, !.current_project = project,
                          !.project_modified = FALSE], TRUE)
    ELSE Result([s EXCEPT !.w = r.w], FALSE)

\* ApplicationService.create_new_project.
ApplicationService_create_new_project(s, project, project_name, file_path, io) ==
    project_opened(s, project,
                   CreateNewProjectUseCase_execute_safely(s.w, project_name, file_path, io))

\* load_project without its test for unsaved changes.
ApplicationService_load_project_unguarded(s, project, file_path) ==
    project_opened(s, project, LoadProjectUseCase_execute_safely(s.w, file_path))

\* ApplicationService.load_project.
ApplicationService_load_project(s, project, file_path) ==
    IF has_unsaved_changes(s) THEN Result(s, FALSE)
    ELSE project_opened(s, project, LoadProjectUseCase_execute_safely(s.w, file_path))

\* The end of save_current_project that leaves project_modified alone.
project_saved_flag_kept(s, r) == Result([s EXCEPT !.w = r.w], r.exc = "none")

\* The end of save_current_project: r is what execute_safely left.
project_saved(s, r) ==
    IF r.exc = "none"
    THEN Result([s EXCEPT !.w = r.w, !.project_modified = FALSE], TRUE)
    ELSE Result([s EXCEPT !.w = r.w], FALSE)

\* ApplicationService.save_current_project.
ApplicationService_save_current_project(s, create_backup, io) ==
    IF s.current_project = NoId THEN Result(s, FALSE)
    ELSE project_saved(s, SaveProjectUseCase_execute_safely(s.w, create_backup, io))

\* ApplicationService.close_project: the Project object is let go.
ApplicationService_close_project(s, force) ==
    IF s.current_project = NoId THEN Result(s, TRUE)
    ELSE IF ~force /\ has_unsaved_changes(s) THEN Result(s, FALSE)
    ELSE Result([s EXCEPT !.w = [close_project(s.w) EXCEPT !.h = EmptyHeap,
                                                           !.path = NoneStr],
                          !.current_project = NoId,
                          !.project_modified = FALSE], TRUE)

\* The end of import_file, create_folder, move_item, copy_file and
\* delete_item: r is what execute_safely left.
project_changed(s, r) ==
    IF r.exc = "none"
    THEN Result([s EXCEPT !.w = r.w, !.project_modified = TRUE], TRUE)
    ELSE Result([s EXCEPT !.w = r.w], FALSE)

\* ApplicationService.import_file.
ApplicationService_import_file(s, source_file_path, target_folder_path, copy, copy_ok, auto_detect_format, content_based) ==
    IF s.current_project = NoId THEN Result(s, FALSE)
    ELSE project_changed(s, ImportFileUseCase_execute_safely(
                                s.w, source_file_path, target_folder_path, copy,
                                copy_ok, auto_detect_format, content_based))

\* ApplicationService.create_folder.
ApplicationService_create_folder(s, parent_folder_path, folder_name) ==
    IF s.current_project = NoId THEN Result(s, FALSE)
    ELSE project_changed(s, CreateFolderUseCase_execute_safely(
                                s.w, parent_folder_path, folder_name))

\* ApplicationService.move_item.
ApplicationService_move_item(s, source_folder_path, item_name, destination_folder_path) ==
    IF s.current_project = NoId THEN Result(s, FALSE)
    ELSE project_changed(s, MoveItemUseCase_execute_safely(
                                s.w, source_folder_path, item_name,
                                destination_folder_path))

\* ApplicationService.copy_file.
ApplicationService_copy_file(s, source_folder_path, file_name, destination_folder_path, new_name) ==
    IF s.current_project = NoId THEN Result(s, FALSE)
    ELSE project_changed(s, CopyFileUseCase_execute_safely(
                                s.w, source_folder_path, file_name,
                                destination_folder_path, new_name))

\* ApplicationService.delete_item.
ApplicationService_delete_item(s, folder_path, item_name, item_type) ==
    IF s.current_project = NoId THEN Result(s, FALSE)
    ELSE project_changed(s, DeleteItemUseCase_execute_safely(
                                s.w, folder_path, item_name, item_type))

---------------------------------------------------------------------------
(* The state machine of ApplicationService: one service on a disk that has *)
(* a directory /s with the file /s/a.fasta.  Each action is one call of a  *)
(* method of the service, run to its end.  The Project object a call       *)
(* makes is told from every other by the number of the call.               *)

ServiceInit == RepoInit

\* The call has run, left the service r.s and returned its result.
Serves(r) ==
    \E h \in {IF r.s.w.h.folder = <<>> THEN r.s.w.h ELSE Collect(r.s.w.h)} :
        /\ WithinBounds(h)
        /\ Cardinality(DOMAIN r.s.w.disk) <= MaxPaths
        /\ calls < MaxCalls
        /\ calls' = calls + 1
        /\ folder' = h.folder
        /\ fileref' = h.fileref
        /\ last_modified' = h.last_modified
        /\ project_file_path' = r.s.w.path
        /\ disk' = r.s.w.disk
        /\ project_root' = r.s.w.root
        /\ current_project_path' = r.s.w.current
        /\ current_project' = r.s.current_project
        /\ project_modified' = r.s.project_modified
        /\ UNCHANGED <<now, platform, project_file, temp_file, backup_files,
                       pc, save, outcome>>

ServiceProjectNames == {ProjectName, S_sp}
ServiceProjectPaths == {F_d_project, F_e_project}
ServiceLoadPaths == {F_d_project, F_e_project, D_d}
ServiceSources == {F_source, F_absent}
ServiceItemNames == {S_Sequences, S_a_fasta}
ServiceDetections == {[format |-> S_fasta, confidence |-> 90],
                      [format |-> S_text, confidence |-> 30]}

ServiceCreateNewProject ==
    \E name \in ServiceProjectNames, path \in ServiceProjectPaths,
       io \in {"ok", "write_fails"} :
        Serves(ApplicationService_create_new_project(Service, calls + 1, name, path, io))

ServiceLoadProject ==
    \E path \in ServiceLoadPaths :
        Serves(ApplicationService_load_project(Service, calls + 1, path))

ServiceSaveCurrentProject ==
    \E create_backup \in BOOLEAN, io \in {"ok", "write_fails"} :
        Serves(ApplicationService_save_current_project(Service, create_backup, io))

ServiceCloseProject ==
    \E force \in BOOLEAN : Serves(ApplicationService_close_project(Service, force))

ServiceImportFile ==
    \E source \in ServiceSources, target \in TargetInputs, copy \in BOOLEAN,
       copy_ok \in BOOLEAN, content_based \in ServiceDetections :
        Serves(ApplicationService_import_file(Service, source, target, copy, copy_ok,
                                              TRUE, content_based))

ServiceCreateFolder ==
    \E parent \in TargetInputs, name \in {S_Sequences, S_sp} :
        Serves(ApplicationService_create_folder(Service, parent, name))

ServiceMoveItem ==
    \E sp \in TargetInputs, n \in ServiceItemNames, dp \in TargetInputs :
        Serves(ApplicationService_move_item(Service, sp, n, dp))

ServiceCopyFile ==
    \E sp \in TargetInputs, n \in ServiceItemNames, dp \in TargetInputs,
       nn \in {NoneStr, S_a_1_fasta} :
        Serves(ApplicationService_copy_file(Service, sp, n, dp, nn))

ServiceDeleteItem ==
    \E p \in TargetInputs, n \in ServiceItemNames, t \in {"file", "folder"} :
        Serves(ApplicationService_delete_item(Service, p, n, t))

ServiceNext ==
    \/ ServiceCreateNewProject
    \/ ServiceLoadProject
    \/ ServiceSaveCurrentProject
    \/ ServiceCloseProject
    \/ ServiceImportFile
    \/ ServiceCreateFolder
    \/ ServiceMoveItem
    \/ ServiceCopyFile
    \/ ServiceDeleteItem

ServiceSpec == ServiceInit /\ [][ServiceNext]_vars


---------------------------------------------------------------------------
(* Unsaved changes.                                                        *)

\* C37: in every state where has_unsaved_changes() is true, load_project
\* of any path and close_project without force return a failure result
\* and leave current_project, project_modified, the project and the
\* repository (its resolver's root and its current project path) as they
\* were, and close_project(force=True) returns success, leaves no current
\* project and no unsaved changes, and resets the repository.
C37_UnsavedChangesGuardLoadAndClose ==
    has_unsaved_changes(Service) =>
       /\ \A path \in ServiceLoadPaths :
             ApplicationService_load_project(Service, calls + 1, path)
                = Result(Service, FALSE)
       /\ ApplicationService_close_project(Service, FALSE) = Result(Service, FALSE)
       /\ \A r \in {ApplicationService_close_project(Service, TRUE)} :
             /\ r.success
             /\ r.s.current_project = NoId
             /\ ~has_unsaved_changes(r.s)
             /\ r.s.w.root = NoneStr
             /\ r.s.w.current = NoneStr
             /\ r.s.w.disk = disk

\* A project with unsaved changes, bound to its directory, while a project
\* file is on disk that load_project would load if it were not for the
\* unsaved changes.
C37_Witness ==
    /\ has_unsaved_changes(Service)
    /\ current_project # NoId
    /\ project_root # NoneStr
    /\ \E path \in ServiceLoadPaths :
          /\ LoadProjectUseCase_execute_safely(World, path).exc = "none"
          /\ ~ApplicationService_load_project(Service, calls + 1, path).success


\* What close_project(force=True) leaves: no current project, no unsaved
\* changes, and the repository reset.
ForcedClose ==
    /\ current_project' = NoId
    /\ ~project_modified'
    /\ project_root' = NoneStr
    /\ current_project_path' = NoneStr

\* C38: over every sequence of service calls, a call made while
\* has_unsaved_changes() is true replaces or drops current_project only if
\* it is close_project(force=True).
C38_UnsavedChangesNeverDiscarded ==
    [][(has_unsaved_changes(Service) /\ current_project' # current_project)
          => ForcedClose]_vars


\* The call that ended as r: after a success has_unsaved_changes() reads
\* flag, after a failure what it read before the call.
FlagAfter(r, flag) ==
    IF r.success THEN has_unsaved_changes(r.s) = flag
    ELSE has_unsaved_changes(r.s) = has_unsaved_changes(Service)

\* C39: in every state, whichever call of the service comes next,
\* has_unsaved_changes() is false after it if it is a successful
\* create_new_project, load_project, save_current_project or close_project,
\* true after it if it is a successful import_file, create_folder,
\* move_item, copy_file or delete_item, and what it was before if the call
\* returns a failure result; a mutating call made while no project is open
\* returns a failure result.
C39_FlagFollowsTheCalls ==
    /\ \A name \in ServiceProjectNames, path \in ServiceProjectPaths,
          io \in {"ok", "write_fails"} :
          FlagAfter(ApplicationService_create_new_project(Service, calls + 1, name, path, io), FALSE)
    /\ \A path \in ServiceLoadPaths :
          FlagAfter(ApplicationService_load_project(Service, calls + 1, path), FALSE)
    /\ \A create_backup \in BOOLEAN, io \in {"ok", "write_fails"} :
          FlagAfter(ApplicationService_save_current_project(Service, create_backup, io), FALSE)
    /\ \A force \in BOOLEAN :
          FlagAfter(ApplicationService_close_project(Service, force), FALSE)
    /\ \A source \in ServiceSources, target \in TargetInputs, copy \in BOOLEAN,
          copy_ok \in BOOLEAN, content_based \in ServiceDetections :
          \A r \in {ApplicationService_import_file(Service, source, target, copy,
                                                   copy_ok, TRUE, content_based)} :
             FlagAfter(r, TRUE) /\ (current_project = NoId => ~r.success)
    /\ \A parent \in TargetInputs, name \in {S_Sequences, S_sp} :
          \A r \in {ApplicationService_create_folder(Service, parent, name)} :
             FlagAfter(r, TRUE) /\ (current_project = NoId => ~r.success)
    /\ \A sp \in TargetInputs, n \in ServiceItemNames, dp \in TargetInputs :
          \A r \in {ApplicationService_move_item(Service, sp, n, dp)} :
             FlagAfter(r, TRUE) /\ (current_project = NoId => ~r.success)
    /\ \A sp \in TargetInputs, n \in ServiceItemNames, dp \in TargetInputs,
          nn \in {NoneStr, S_a_1_fasta} :
          \A r \in {ApplicationService_copy_file(Service, sp, n, dp, nn)} :
             FlagAfter(r, TRUE) /\ (current_project = NoId => ~r.success)
    /\ \A p \in TargetInputs, n \in ServiceItemNames, t \in {"file", "folder"} :
          \A r \in {ApplicationService_delete_item(Service, p, n, t)} :
             FlagAfter(r, TRUE) /\ (current_project = NoId => ~r.success)

\* A project with unsaved changes for which a save succeeds and leaves none,
\* a move succeeds and a delete fails, both leaving them, and a forced close
\* succeeds and leaves none.
C39_Witness ==
    /\ has_unsaved_changes(Service)
    /\ \E create_backup \in BOOLEAN :
          \E r \in {ApplicationService_save_current_project(Service, create_backup, "ok")} :
             r.success /\ ~has_unsaved_changes(r.s)
    /\ \E sp \in TargetInputs, n \in ServiceItemNames, dp \in TargetInputs :
          \E r \in {ApplicationService_move_item(Service, sp, n, dp)} :
             r.success /\ has_unsaved_changes(r.s)
    /\ \E p \in TargetInputs, n \in ServiceItemNames, t \in {"file", "folder"} :
          \E r \in {ApplicationService_delete_item(Service, p, n, t)} :
             ~r.success /\ has_unsaved_changes(r.s)
    /\ \E r \in {ApplicationService_close_project(Service, TRUE)} :
          r.success /\ ~has_unsaved_changes(r.s)

====
